---------------------------- MODULE Spec2Model ----------------------------
(***************************************************************************)
(* A model of the TUIC relay engine: the UDP fragment splitter             *)
(* (src/src/common/udp.rs), the incoming task demultiplexer                *)
(* (src/src/common/incoming.rs), the server's UDP session map              *)
(* (src/server/src/connection/udp_session.rs) and the configuration        *)
(* loaders of the clients (src/client/src/config.rs,                       *)
(* src/tuic-client/src/config.rs) with the main functions of tuic-client   *)
(* and tuic-server.                                                        *)
(*                                                                         *)
(* The module holds several state machines over one set of variables.     *)
(* Each specification drives one component and keeps the variables of the  *)
(* other components at their idle values.                                  *)
(***************************************************************************)
EXTENDS Integers, Sequences, FiniteSets, TLC

VARIABLES
    s_in,       \* splitter: the arguments of split_packet, [pkt, addr, max, build]
    s_pc,       \* splitter: "start" | "iter" | "done" | "panicked"
    sp,         \* splitter: the SplitPacket struct [pkt, max_pkt_size, start, end, len]
    s_out,      \* splitter: the fragments next() has returned as Some(..), in order
    s_nones,    \* splitter: how many times next() has returned None
    s_underflow, \* splitter: whether SplitPacket::new subtracted below zero
    a_pc,       \* demultiplexer: "idle" | "pending" | "accepted"
    a_in,       \* demultiplexer: what the peer put on the wire for the current item
    a_pending,  \* demultiplexer: the RawPendingIncomingTask poll_next emitted
    a_res,      \* demultiplexer: the Result accept() returned
    a_count,    \* demultiplexer: how many items the merged stream has emitted
    a_reg,      \* demultiplexer: the count of the connection's stream registry
    a_live,     \* demultiplexer: the streams the task layer holds, not yet dropped
    u_map,      \* session map: the HashMap, assoc_id -> session (0: no entry)
    u_mutex,    \* session map: the caller holding the map's Mutex (0: free)
    u_pc,       \* session map: where each caller is in send or dissociate
    u_arg,      \* session map: the arguments of each caller's call
    u_sess,     \* session map: every UdpSession created, with its channel and workers
    u_nsess,    \* session map: how many sessions UdpSession::new has created
    u_tasks,    \* session map: the spawned socket.send_to tasks not yet run
    u_rchan,    \* session map: the reply channel to the receive dispatcher
    u_sent,     \* session map: the packet a socket's send_to transmitted last
    u_delivered, \* session map: the tuple the receive dispatcher took last
    u_calls,    \* session map: how many calls have been made
    u_recvs,    \* session map: how many times recv_from has returned
    c_state,    \* connection: "Pending" | "Authenticated" | "Closing" | "Closed"
    c_task,     \* connection: the accepted task being handled
    c_held,     \* connection: the tasks held until authentication, in arrival order
    c_exec,     \* connection: the tasks executed, in execution order
    c_n,        \* connection: how many items have arrived
    c_err,      \* connection: the fatal error the connection closed with
    g_pc,       \* configuration: "start" | "set_config" | "done"
    g_in,       \* configuration: the loader run, its arguments and its config file
    g_res,      \* configuration: the Result Config::parse returned
    g_exit,     \* configuration: how main ended the process, None while it runs
    m_src,      \* merge: per source, the items produced and taken, and whether it ended
    m_ready,    \* merge: the ready-to-run queue of the SelectAll, a sequence of sources
    m_set,      \* merge: the sources the SelectAll still holds
    m_out,      \* merge: the pending tasks poll_next has emitted, in order
    m_done,     \* merge: whether poll_next has returned Ready(None)
    m_bypass    \* merge: per source, the tasks of other sources emitted while it has an item waiting

splitVars == <<s_in, s_pc, sp, s_out, s_nones, s_underflow>>

acceptVars == <<a_pc, a_in, a_pending, a_res, a_count, a_reg, a_live>>

udpVars ==
    <<u_map, u_mutex, u_pc, u_arg, u_sess, u_nsess, u_tasks, u_rchan, u_sent,
      u_delivered, u_calls, u_recvs>>

connVars == <<c_state, c_task, c_held, c_exec, c_n, c_err>>

configVars == <<g_pc, g_in, g_res, g_exit>>

mergeVars == <<m_src, m_ready, m_set, m_out, m_done, m_bypass>>

vars == <<splitVars, acceptVars, udpVars, connVars, configVars, mergeVars>>

\* what the actions of one component leave alone: the other components
notSplit == <<acceptVars, udpVars, connVars, configVars, mergeVars>>

notAccept == <<splitVars, udpVars, connVars, configVars, mergeVars>>

notUdp == <<splitVars, acceptVars, connVars, configVars, mergeVars>>

notConn == <<splitVars, acceptVars, udpVars, configVars, mergeVars>>

notConfig == <<splitVars, acceptVars, udpVars, connVars, mergeVars>>

notMerge == <<splitVars, acceptVars, udpVars, connVars, configVars>>

----------------------------------------------------------------------------
(* Bounds of the model *)

\* longest generated payload, in bytes
MaxPayloadLen == 48
\* largest first-fragment capacity generated (max_datagram_size - H - A)
MaxSlack == 3
\* how many times next() is called again after its first None
MaxNones == 2
\* how many items the merged incoming stream emits
MaxItems == 2
\* how many items arrive on the connection whose gating is modelled
MaxArrivals == 4
\* how many tasks the holding area of a pending connection takes
HoldCap == 2
\* how many send and dissociate calls are made in all
MaxCalls == 3
\* how many datagrams the sessions' sockets receive in all
MaxRecvs == 2
\* how many items the three incoming sources of the merge produce in all
MaxProduced == 4

----------------------------------------------------------------------------
(* Wire sizes *)

\* Packet::len_without_addr: ASSOC_ID, PKT_ID, FRAG_TOTAL, FRAG_ID, SIZE
LenWithoutAddr == 2 + 2 + 1 + 1 + 2

\* the {version, type} bytes that begin every command frame
FrameHeaderLen == 1 + 1

\* H: Command::Packet{.., addr: None}.serialized_len(), the header without address
HeaderLen == FrameHeaderLen + LenWithoutAddr

\* the width of usize on the 64-bit targets the programs are built for: without
\* overflow checks usize arithmetic wraps modulo 2^UsizeBits
UsizeBits == 64

\* a usize value that may have wrapped is held as its base-2^16 digits, most
\* significant first, so that every digit computation stays a small integer
LimbBase == 2 ^ 16

LimbCount == UsizeBits \div 16

\* the usize value of a natural number below 2^31
Usize(n) ==
    [i \in 1..LimbCount |->
        CASE i = LimbCount -> n % LimbBase
          [] i = LimbCount - 1 -> n \div LimbBase
          [] OTHER -> 0]

\* a - b in usize without overflow checks, for lengths a, b below LimbBase:
\* below zero the difference wraps to 2^UsizeBits - (b - a)
WrappingSub(a, b) ==
    IF a >= b
    THEN Usize(a - b)
    ELSE [i \in 1..LimbCount |->
            IF i = LimbCount THEN LimbBase - (b - a) ELSE LimbBase - 1]

\* the digits of x / d by long division, carry being the remainder so far
RECURSIVE DivLimbs(_, _, _)
DivLimbs(x, d, carry) ==
    IF x = <<>>
    THEN <<>>
    ELSE LET cur == carry * LimbBase + Head(x)
         IN  <<cur \div d>> \o DivLimbs(Tail(x), d, cur % d)

\* x / d in usize, for a divisor below 2^15
UsizeDiv(x, d) == DivLimbs(x, d, 0)

\* the digits of x + carry, a carry out of the most significant digit lost
RECURSIVE AddLimbs(_, _)
AddLimbs(x, carry) ==
    IF x = <<>>
    THEN <<>>
    ELSE LET cur == x[Len(x)] + carry
         IN  AddLimbs(SubSeq(x, 1, Len(x) - 1), cur \div LimbBase)
                 \o <<cur % LimbBase>>

\* x + k in usize without overflow checks, for k below LimbBase
WrappingAdd(x, k) == AddLimbs(x, k)

Min(a, b) == IF a < b THEN a ELSE b

\* Address: the forms of a destination address
AddrV4 == [kind |-> "IPv4", host |-> <<1, 2, 3, 4>>, port |-> 53]
AddrDomain == [kind |-> "DomainName", host |-> <<97, 46, 116, 101, 115, 116>>, port |-> 53]
AddrV6 == [kind |-> "IPv6", host |-> <<0, 0, 0, 0, 0, 0, 0, 0, 0, 0, 0, 0, 0, 0, 0, 1>>, port |-> 53]
AddrNone == [kind |-> "None", host |-> <<>>, port |-> 0]

\* Address::serialized_len: tag, body, port
AddrSerializedLen(a) ==
    CASE a.kind = "None" -> 1
      [] a.kind = "DomainName" -> 1 + 1 + Len(a.host) + 2
      [] a.kind = "IPv4" -> 1 + 4 + 2
      [] a.kind = "IPv6" -> 1 + 16 + 2

----------------------------------------------------------------------------
(* Fragment splitter: src/src/common/udp.rs *)

\* a payload of n bytes whose neighbouring bytes differ
PayloadOf(n) == [i \in 1..n |-> i % 256]

\* Bytes::slice(from..to), with 0-based half-open bounds
Slice(b, from, to) == SubSeq(b, from + 1, to)

NoSplitter ==
    [pkt |-> <<>>, max_pkt_size |-> 0, start |-> 0, end |-> 0, len |-> Usize(0)]

\* first_pkt_size of SplitPacket::new
FirstPktSize(addr, max_datagram_size) ==
    max_datagram_size - HeaderLen - AddrSerializedLen(addr)

\* max_pkt_size of SplitPacket::new
MaxPktSize(max_datagram_size) == max_datagram_size - HeaderLen

\* the branch of SplitPacket::new that computes len
LenBranchTaken(first_pkt_size, pkt_len) == first_pkt_size > pkt_len

\* pkt.len() - first_pkt_size goes below zero in the branch that computes it
NewUnderflows(pkt, addr, max_datagram_size) ==
    /\ LenBranchTaken(FirstPktSize(addr, max_datagram_size), Len(pkt))
    /\ Len(pkt) < FirstPktSize(addr, max_datagram_size)

\* the len field SplitPacket::new stores, with usize subtraction wrapping
NewLen(pkt, addr, max_datagram_size) ==
    LET first_pkt_size == FirstPktSize(addr, max_datagram_size)
        max_pkt_size == MaxPktSize(max_datagram_size)
    IN  IF LenBranchTaken(first_pkt_size, Len(pkt))
        THEN WrappingAdd(
                 WrappingAdd(
                     UsizeDiv(WrappingSub(Len(pkt), first_pkt_size), max_pkt_size),
                     1),
                 1)
        ELSE Usize(1)

\* SplitPacket::new
SplitPacketNew(pkt, addr, max_datagram_size) ==
    [pkt |-> pkt,
     max_pkt_size |-> MaxPktSize(max_datagram_size),
     start |-> 0,
     end |-> FirstPktSize(addr, max_datagram_size),
     len |-> NewLen(pkt, addr, max_datagram_size)]

\* an iterator that never ends
NextIsSome_Always(s) == TRUE

\* whether SplitPacket::next returns Some
NextIsSome(s) == s.start <= Len(s.pkt)

\* the fragment SplitPacket::next returns inside Some
NextFragment(s) == Slice(s.pkt, s.start, Min(s.end, Len(s.pkt)))

\* the splitter after a call of next() that returned Some
NextAdvance(s) ==
    [s EXCEPT !.start = s.start + s.max_pkt_size, !.end = s.end + s.max_pkt_size]

\* the inputs the splitter is run on: every small payload, address and size, and
\* the multi-fragment scenario (4000 bytes, 1200-byte datagrams, a domain address)
SplitAddrs == {AddrV4, AddrDomain, AddrV6}

SplitBuilds == {"checked", "wrapping"}

SmallSplitInputs ==
    {[pkt |-> PayloadOf(n), addr |-> a,
      max |-> HeaderLen + AddrSerializedLen(a) + k, build |-> b] :
        n \in 0..MaxPayloadLen, a \in SplitAddrs, k \in 1..MaxSlack, b \in SplitBuilds}

Scenario3Inputs ==
    {[pkt |-> PayloadOf(4000), addr |-> AddrDomain, max |-> 1200, build |-> b] :
        b \in SplitBuilds}

SplitInputs == SmallSplitInputs \cup Scenario3Inputs

SplitInit ==
    /\ s_in \in SplitInputs
    /\ s_pc = "start"
    /\ sp = NoSplitter
    /\ s_out = <<>>
    /\ s_nones = 0
    /\ s_underflow = FALSE

SplitIdle ==
    /\ s_in = [pkt |-> <<>>, addr |-> AddrNone, max |-> 0, build |-> "checked"]
    /\ s_pc = "idle"
    /\ sp = NoSplitter
    /\ s_out = <<>>
    /\ s_nones = 0
    /\ s_underflow = FALSE

\* split_packet(pkt, addr, max_datagram_len): with overflow checks the
\* subtraction below zero panics, without them it wraps
SplitNew ==
    /\ s_pc = "start"
    /\ s_underflow' = NewUnderflows(s_in.pkt, s_in.addr, s_in.max)
    /\ IF NewUnderflows(s_in.pkt, s_in.addr, s_in.max) /\ s_in.build = "checked"
       THEN /\ s_pc' = "panicked"
            /\ sp' = sp
       ELSE /\ s_pc' = "iter"
            /\ sp' = SplitPacketNew(s_in.pkt, s_in.addr, s_in.max)
    /\ UNCHANGED <<s_in, s_out, s_nones, notSplit>>

\* SplitPacket::next returning Some(fragment)
SplitNextSome ==
    /\ s_pc \in {"iter", "done"}
    /\ NextIsSome(sp)
    /\ s_out' = Append(s_out, NextFragment(sp))
    /\ sp' = NextAdvance(sp)
    /\ UNCHANGED <<s_in, s_pc, s_nones, s_underflow, notSplit>>

\* SplitPacket::next returning None
SplitNextNone ==
    /\ s_pc \in {"iter", "done"}
    /\ ~NextIsSome(sp)
    /\ s_nones < MaxNones
    /\ s_pc' = "done"
    /\ s_nones' = s_nones + 1
    /\ UNCHANGED <<s_in, sp, s_out, s_underflow, notSplit>>

SplitNext == SplitNew \/ SplitNextSome \/ SplitNextNone

----------------------------------------------------------------------------
(* Wire codec: the commands, their encoding and Command::read_from *)

\* the protocol version byte of every command frame
TuicVersion == 5

TypeAuthenticate == 0
TypeConnect == 1
TypePacket == 2
TypeDissociate == 3
TypeHeartbeat == 4

\* the length of an authentication token
TokenLen == 32

\* a big-endian 16-bit integer
U16(n) == <<n \div 256, n % 256>>

\* the 16-bit integer at b[p+1], b[p+2]
ReadU16(b, p) == b[p + 1] * 256 + b[p + 2]

CmdAuthenticate(token) == [type |-> "Authenticate", token |-> token]
CmdConnect(addr) == [type |-> "Connect", addr |-> addr]
CmdPacket(assoc_id, pkt_id, frag_total, frag_id, size, addr) ==
    [type |-> "Packet", assoc_id |-> assoc_id, pkt_id |-> pkt_id,
     frag_total |-> frag_total, frag_id |-> frag_id, len |-> size, addr |-> addr]
CmdDissociate(assoc_id) == [type |-> "Dissociate", assoc_id |-> assoc_id]
CmdHeartbeat == [type |-> "Heartbeat"]

\* Address encoding: tag, body, port
EncodeAddr(a) ==
    CASE a.kind = "None" -> <<255>>
      [] a.kind = "DomainName" -> <<0, Len(a.host)>> \o a.host \o U16(a.port)
      [] a.kind = "IPv4" -> <<1>> \o a.host \o U16(a.port)
      [] a.kind = "IPv6" -> <<2>> \o a.host \o U16(a.port)

\* Command encoding: {version, type}, then the fields of the variant
Encode(c) ==
    CASE c.type = "Authenticate" -> <<TuicVersion, TypeAuthenticate>> \o c.token
      [] c.type = "Connect" -> <<TuicVersion, TypeConnect>> \o EncodeAddr(c.addr)
      [] c.type = "Packet" ->
            <<TuicVersion, TypePacket>> \o U16(c.assoc_id) \o U16(c.pkt_id)
                \o <<c.frag_total, c.frag_id>> \o U16(c.len) \o EncodeAddr(c.addr)
      [] c.type = "Dissociate" -> <<TuicVersion, TypeDissociate>> \o U16(c.assoc_id)
      [] c.type = "Heartbeat" -> <<TuicVersion, TypeHeartbeat>>

\* Command::serialized_len, computed from the fields
SerializedLen(c) ==
    CASE c.type = "Authenticate" -> FrameHeaderLen + TokenLen
      [] c.type = "Connect" -> FrameHeaderLen + AddrSerializedLen(c.addr)
      [] c.type = "Packet" -> FrameHeaderLen + LenWithoutAddr + AddrSerializedLen(c.addr)
      [] c.type = "Dissociate" -> FrameHeaderLen + 2
      [] c.type = "Heartbeat" -> FrameHeaderLen

MarshalOk(c, n) == [ok |-> TRUE, cmd |-> c, n |-> n]
MarshalErr(kind) == [ok |-> FALSE, err |-> kind]

\* whether the bytes of a domain name are UTF-8: exact for ASCII names and for
\* names holding a byte that no UTF-8 text contains, which are the names generated
Utf8Valid(bytes) == \A i \in 1..Len(bytes) : bytes[i] < 128

\* Address decoding from b at offset p: [ok, addr, n] or [ok, err]
ReadAddr(b, p) ==
    IF Len(b) < p + 1 THEN MarshalErr("Io")
    ELSE LET tag == b[p + 1] IN
        CASE tag = 255 -> [ok |-> TRUE, addr |-> AddrNone, n |-> 1]
          [] tag = 0 ->
                IF Len(b) < p + 2 THEN MarshalErr("Io")
                ELSE LET l == b[p + 2] IN
                    IF Len(b) < p + 2 + l + 2 THEN MarshalErr("Io")
                    ELSE IF ~Utf8Valid(SubSeq(b, p + 3, p + 2 + l))
                         THEN MarshalErr("InvalidEncoding")
                    ELSE [ok |-> TRUE,
                          addr |-> [kind |-> "DomainName",
                                    host |-> SubSeq(b, p + 3, p + 2 + l),
                                    port |-> ReadU16(b, p + 2 + l)],
                          n |-> 1 + 1 + l + 2]
          [] tag = 1 ->
                IF Len(b) < p + 1 + 4 + 2 THEN MarshalErr("Io")
                ELSE [ok |-> TRUE,
                      addr |-> [kind |-> "IPv4", host |-> SubSeq(b, p + 2, p + 5),
                                port |-> ReadU16(b, p + 5)],
                      n |-> 1 + 4 + 2]
          [] tag = 2 ->
                IF Len(b) < p + 1 + 16 + 2 THEN MarshalErr("Io")
                ELSE [ok |-> TRUE,
                      addr |-> [kind |-> "IPv6", host |-> SubSeq(b, p + 2, p + 17),
                                port |-> ReadU16(b, p + 17)],
                      n |-> 1 + 16 + 2]
          [] OTHER -> MarshalErr("Protocol")

\* Command::read_from on the bytes b from offset p: the command and the number
\* of bytes read, or the marshaling error
ReadFrom(b, p) ==
    IF Len(b) < p + FrameHeaderLen THEN MarshalErr("Io")
    ELSE IF b[p + 1] # TuicVersion THEN MarshalErr("Protocol")
    ELSE LET type == b[p + 2]
             q == p + FrameHeaderLen
         IN
        CASE type = TypeAuthenticate ->
                IF Len(b) < q + TokenLen THEN MarshalErr("Io")
                ELSE MarshalOk(CmdAuthenticate(SubSeq(b, q + 1, q + TokenLen)),
                               FrameHeaderLen + TokenLen)
          [] type = TypeConnect ->
                LET a == ReadAddr(b, q) IN
                IF ~a.ok THEN a
                ELSE MarshalOk(CmdConnect(a.addr), FrameHeaderLen + a.n)
          [] type = TypePacket ->
                IF Len(b) < q + LenWithoutAddr THEN MarshalErr("Io")
                ELSE LET a == ReadAddr(b, q + LenWithoutAddr) IN
                    IF ~a.ok THEN a
                    ELSE MarshalOk(
                            CmdPacket(ReadU16(b, q), ReadU16(b, q + 2), b[q + 5],
                                      b[q + 6], ReadU16(b, q + 6), a.addr),
                            FrameHeaderLen + LenWithoutAddr + a.n)
          [] type = TypeDissociate ->
                IF Len(b) < q + 2 THEN MarshalErr("Io")
                ELSE MarshalOk(CmdDissociate(ReadU16(b, q)), FrameHeaderLen + 2)
          [] type = TypeHeartbeat -> MarshalOk(CmdHeartbeat, FrameHeaderLen)
          [] OTHER -> MarshalErr("Protocol")

----------------------------------------------------------------------------
(* Incoming task demultiplexer: src/src/common/incoming.rs *)

\* PacketBuffer: the reassembly buffer RawIncomingTasks::new creates
ConnPktBuf == "pkt_buf"

\* a received stream: its identity, the bytes the peer wrote, the read position
Stream(id, bytes) == [id |-> id, bytes |-> bytes, pos |-> 0]

\* the stream after Command::read_from has read n bytes from it
AfterRead(stream, n) == [stream EXCEPT !.pos = stream.pos + n]

\* RawPendingIncomingTask
PendingBiStream(stream) == [src |-> "BiStream", stream |-> stream]
PendingUniStream(stream) == [src |-> "UniStream", stream |-> stream]
PendingDatagram(datagram, pkt_buf) ==
    [src |-> "Datagram", datagram |-> datagram, pkt_buf |-> pkt_buf]
NoPending == [src |-> "None"]

\* RawIncomingTask
TaskAuthenticate(token) == [task |-> "Authenticate", token |-> token]
TaskConnect(addr, stream) == [task |-> "Connect", addr |-> addr, stream |-> stream]
TaskPacketFromUniStream(assoc_id, pkt_id, frag_total, frag_id, len, addr, stream) ==
    [task |-> "PacketFromUniStream", assoc_id |-> assoc_id, pkt_id |-> pkt_id,
     frag_total |-> frag_total, frag_id |-> frag_id, len |-> len, addr |-> addr,
     stream |-> stream]
TaskPacketFromDatagram(assoc_id, pkt_id, frag_total, frag_id, len, addr, pkt_buf, pkt) ==
    [task |-> "PacketFromDatagram", assoc_id |-> assoc_id, pkt_id |-> pkt_id,
     frag_total |-> frag_total, frag_id |-> frag_id, len |-> len, addr |-> addr,
     pkt_buf |-> pkt_buf, pkt |-> pkt]
TaskDissociate(assoc_id) == [task |-> "Dissociate", assoc_id |-> assoc_id]
TaskHeartbeat == [task |-> "Heartbeat"]

\* Result<RawIncomingTask, IncomingError>
Ok(task) == [ok |-> TRUE, val |-> task]
Err(e) == [ok |-> FALSE, val |-> e]
NoResult == [ok |-> FALSE, val |-> [error |-> "None"]]

\* IncomingError::from_marshaling_error
FromMarshalingError(kind) == [error |-> kind]

\* IncomingError::UnexpectedCommandFrom{BiStream, UniStream, Datagram}
UnexpectedCommandFromBiStream(stream, cmd) ==
    [error |-> "UnexpectedCommandFromBiStream", stream |-> stream, cmd |-> cmd]
UnexpectedCommandFromUniStream(stream, cmd) ==
    [error |-> "UnexpectedCommandFromUniStream", stream |-> stream, cmd |-> cmd]
UnexpectedCommandFromDatagram(datagram, cmd) ==
    [error |-> "UnexpectedCommandFromDatagram", datagram |-> datagram, cmd |-> cmd]

\* accept_from_bi_stream dropping the stream of an unexpected command
AcceptFromBiStream_DropsStream(stream) ==
    LET r == ReadFrom(stream.bytes, stream.pos) IN
    IF ~r.ok THEN Err(FromMarshalingError(r.err))
    ELSE LET read == AfterRead(stream, r.n) IN
        IF r.cmd.type = "Connect" THEN Ok(TaskConnect(r.cmd.addr, read))
        ELSE Err(FromMarshalingError("Protocol"))

\* RawPendingIncomingTask::accept_from_bi_stream
AcceptFromBiStream(stream) ==
    LET r == ReadFrom(stream.bytes, stream.pos) IN
    IF ~r.ok THEN Err(FromMarshalingError(r.err))
    ELSE LET read == AfterRead(stream, r.n) IN
        IF r.cmd.type = "Connect" THEN Ok(TaskConnect(r.cmd.addr, read))
        ELSE Err(UnexpectedCommandFromBiStream(read, r.cmd))

\* accept_from_uni_stream taking Connect as a task
AcceptFromUniStream_TakesConnect(stream) ==
    LET r == ReadFrom(stream.bytes, stream.pos) IN
    IF ~r.ok THEN Err(FromMarshalingError(r.err))
    ELSE LET read == AfterRead(stream, r.n)
             cmd == r.cmd
         IN
        CASE cmd.type = "Authenticate" -> Ok(TaskAuthenticate(cmd.token))
          [] cmd.type = "Packet" ->
                Ok(TaskPacketFromUniStream(cmd.assoc_id, cmd.pkt_id, cmd.frag_total,
                                           cmd.frag_id, cmd.len, cmd.addr, read))
          [] cmd.type = "Dissociate" -> Ok(TaskDissociate(cmd.assoc_id))
          [] cmd.type = "Heartbeat" -> Ok(TaskHeartbeat)
          [] OTHER -> Ok(TaskConnect(cmd.addr, read))

\* accept_from_uni_stream reading the payload of a Packet before returning
AcceptFromUniStream_ReadsPayload(stream) ==
    LET r == ReadFrom(stream.bytes, stream.pos) IN
    IF ~r.ok THEN Err(FromMarshalingError(r.err))
    ELSE LET read == AfterRead(stream, r.n)
             cmd == r.cmd
         IN
        CASE cmd.type = "Authenticate" -> Ok(TaskAuthenticate(cmd.token))
          [] cmd.type = "Packet" ->
                Ok(TaskPacketFromUniStream(
                    cmd.assoc_id, cmd.pkt_id, cmd.frag_total, cmd.frag_id, cmd.len,
                    cmd.addr,
                    AfterRead(read, Min(cmd.len, Len(stream.bytes) - read.pos))))
          [] cmd.type = "Dissociate" -> Ok(TaskDissociate(cmd.assoc_id))
          [] cmd.type = "Heartbeat" -> Ok(TaskHeartbeat)
          [] OTHER -> Err(UnexpectedCommandFromUniStream(read, cmd))

\* RawPendingIncomingTask::accept_from_uni_stream
AcceptFromUniStream(stream) ==
    LET r == ReadFrom(stream.bytes, stream.pos) IN
    IF ~r.ok THEN Err(FromMarshalingError(r.err))
    ELSE LET read == AfterRead(stream, r.n)
             cmd == r.cmd
         IN
        CASE cmd.type = "Authenticate" -> Ok(TaskAuthenticate(cmd.token))
          [] cmd.type = "Packet" ->
                Ok(TaskPacketFromUniStream(cmd.assoc_id, cmd.pkt_id, cmd.frag_total,
                                           cmd.frag_id, cmd.len, cmd.addr, read))
          [] cmd.type = "Dissociate" -> Ok(TaskDissociate(cmd.assoc_id))
          [] cmd.type = "Heartbeat" -> Ok(TaskHeartbeat)
          [] OTHER -> Err(UnexpectedCommandFromUniStream(read, cmd))

\* accept_from_datagram slicing after the header without its address
AcceptFromDatagram_SkipsNoAddress(datagram, pkt_buf) ==
    LET r == ReadFrom(datagram, 0) IN
    IF ~r.ok THEN Err(FromMarshalingError(r.err))
    ELSE LET cmd == r.cmd
             pkt == Slice(datagram, HeaderLen, Len(datagram))
         IN
        IF cmd.type = "Packet"
        THEN Ok(TaskPacketFromDatagram(cmd.assoc_id, cmd.pkt_id, cmd.frag_total,
                                       cmd.frag_id, cmd.len, cmd.addr, pkt_buf, pkt))
        ELSE Err(UnexpectedCommandFromDatagram(datagram, cmd))

\* RawPendingIncomingTask::accept_from_datagram
AcceptFromDatagram(datagram, pkt_buf) ==
    LET r == ReadFrom(datagram, 0) IN
    IF ~r.ok THEN Err(FromMarshalingError(r.err))
    ELSE LET cmd == r.cmd
             pkt == Slice(datagram, SerializedLen(cmd), Len(datagram))
         IN
        IF cmd.type = "Packet"
        THEN Ok(TaskPacketFromDatagram(cmd.assoc_id, cmd.pkt_id, cmd.frag_total,
                                       cmd.frag_id, cmd.len, cmd.addr, pkt_buf, pkt))
        ELSE Err(UnexpectedCommandFromDatagram(datagram, cmd))

\* RawPendingIncomingTask::accept
Accept(pending) ==
    CASE pending.src = "BiStream" -> AcceptFromBiStream(pending.stream)
      [] pending.src = "UniStream" -> AcceptFromUniStream(pending.stream)
      [] pending.src = "Datagram" -> AcceptFromDatagram(pending.datagram, pending.pkt_buf)

\* StreamReg::clone: one more registration in the registry
RegClone(reg) == reg + 1

\* dropping n stream halves drops the StreamReg each of them holds
RegDrop(reg, n) == reg - n

\* poll_next registering one half of a bi-stream only
RegisterBiStream_OneHalf(reg) == RegClone(reg)

\* poll_next, BiStream arm: SendStream::new and RecvStream::new each take a
\* clone of the registry
RegisterBiStream(reg) == RegClone(RegClone(reg))

\* poll_next, UniStream arm: RecvStream::new takes a clone of the registry
RegisterUniStream(reg) == RegClone(reg)

\* the stream halves a pending task owns: a BiStream is a SendStream and a
\* RecvStream, a uni-stream a RecvStream, a datagram none
StreamHalves(pending) ==
    CASE pending.src = "BiStream" -> 2
      [] pending.src = "UniStream" -> 1
      [] OTHER -> 0

\* the result of accept owns a stream: the tasks Connect and
\* PacketFromUniStream, the errors UnexpectedCommandFromBiStream and
\* UnexpectedCommandFromUniStream
HoldsStream(res) == "stream" \in DOMAIN res.val

\* what a peer may put on a stream or in a datagram: a command and the bytes
\* after it, or bytes that are no command
TokenA == [i \in 1..TokenLen |-> i]

AddrBadUtf8 == [kind |-> "DomainName", host |-> <<97, 255>>, port |-> 53]

WirePayloads == {<<>>, <<9>>, <<9, 8, 7>>}

WireCommands(payload) ==
    {CmdAuthenticate(TokenA),
     CmdConnect(AddrV4),
     CmdConnect(AddrDomain),
     CmdPacket(7, 0, 1, 0, Len(payload), AddrV4),
     CmdPacket(258, 513, 2, 1, Len(payload), AddrNone),
     CmdPacket(7, 1, 2, 0, Len(payload), AddrDomain),
     CmdDissociate(7),
     CmdDissociate(258),
     CmdHeartbeat}

NoCommand == [type |-> "None"]

WellFormedWire ==
    {[cmd |-> c, payload |-> p, bytes |-> Encode(c) \o p] :
        c \in UNION {WireCommands(q) : q \in WirePayloads}, p \in WirePayloads}

MalformedWire ==
    {[cmd |-> NoCommand, payload |-> <<>>, bytes |-> b] :
        b \in {<<>>,
               <<TuicVersion>>,
               <<4, TypeHeartbeat>>,
               <<TuicVersion, 9>>,
               <<TuicVersion, TypePacket, 0, 7>>,
               <<TuicVersion, TypeConnect, 7, 1, 2>>,
               Encode(CmdConnect(AddrBadUtf8))}}

WireInputs == WellFormedWire \cup MalformedWire

NoWire == [cmd |-> NoCommand, payload |-> <<>>, bytes |-> <<>>]

AcceptInit ==
    /\ a_pc = "idle"
    /\ a_in = NoWire
    /\ a_pending = NoPending
    /\ a_res = NoResult
    /\ a_count = 0
    /\ a_reg = 0
    /\ a_live = {}

AcceptIdle ==
    /\ a_pc = "off"
    /\ a_in = NoWire
    /\ a_pending = NoPending
    /\ a_res = NoResult
    /\ a_count = 0
    /\ a_reg = 0
    /\ a_live = {}

\* RawIncomingTasks::poll_next, the source yielding a bi-stream
PollNextBiStream ==
    /\ a_pc = "idle"
    /\ a_count < MaxItems
    /\ \E w \in WireInputs :
        /\ a_in' = w
        /\ a_pending' = PendingBiStream(Stream(a_count + 1, w.bytes))
    /\ a_pc' = "pending"
    /\ a_count' = a_count + 1
    /\ a_res' = NoResult
    /\ a_reg' = RegisterBiStream(a_reg)
    /\ UNCHANGED <<a_live, notAccept>>

\* RawIncomingTasks::poll_next, the source yielding a uni-stream
PollNextUniStream ==
    /\ a_pc = "idle"
    /\ a_count < MaxItems
    /\ \E w \in WireInputs :
        /\ a_in' = w
        /\ a_pending' = PendingUniStream(Stream(a_count + 1, w.bytes))
    /\ a_pc' = "pending"
    /\ a_count' = a_count + 1
    /\ a_res' = NoResult
    /\ a_reg' = RegisterUniStream(a_reg)
    /\ UNCHANGED <<a_live, notAccept>>

\* RawIncomingTasks::poll_next, the source yielding a datagram
PollNextDatagram ==
    /\ a_pc = "idle"
    /\ a_count < MaxItems
    /\ \E w \in WireInputs :
        /\ a_in' = w
        /\ a_pending' = PendingDatagram(w.bytes, ConnPktBuf)
    /\ a_pc' = "pending"
    /\ a_count' = a_count + 1
    /\ a_res' = NoResult
    /\ UNCHANGED <<a_reg, a_live, notAccept>>

\* RawPendingIncomingTask::accept, run on the pending task; accept takes self
\* by value, so a stream it does not move into its result is dropped when it
\* returns
AcceptPending ==
    /\ a_pc = "pending"
    /\ a_res' = Accept(a_pending)
    /\ a_pc' = "accepted"
    /\ a_reg' = IF HoldsStream(Accept(a_pending)) THEN a_reg
               ELSE RegDrop(a_reg, StreamHalves(a_pending))
    /\ UNCHANGED <<a_in, a_pending, a_count, a_live, notAccept>>

\* the caller takes the result, keeps the stream it carries, and polls the
\* merged stream again
TakeResult ==
    /\ a_pc = "accepted"
    /\ a_pc' = "idle"
    /\ a_live' = IF HoldsStream(a_res)
                THEN a_live \cup {[id |-> a_res.val.stream.id,
                                   halves |-> StreamHalves(a_pending)]}
                ELSE a_live
    /\ UNCHANGED <<a_in, a_pending, a_res, a_count, a_reg, notAccept>>

\* the task layer drops a stream it holds: both halves of a BiStream, the
\* RecvStream of a uni-stream
DropStream ==
    /\ \E x \in a_live :
        /\ a_live' = a_live \ {x}
        /\ a_reg' = RegDrop(a_reg, x.halves)
    /\ UNCHANGED <<a_pc, a_in, a_pending, a_res, a_count, notAccept>>

AcceptNext ==
    PollNextBiStream \/ PollNextUniStream \/ PollNextDatagram \/ AcceptPending
        \/ TakeResult \/ DropStream

----------------------------------------------------------------------------
(* UDP session map of the server: src/server/src/connection/udp_session.rs *)

\* the tasks that call UdpSessionMap::send and UdpSessionMap::dissociate
Callers == {1, 2}

\* the assoc_ids the callers use
AssocIds == {1, 2}

\* every session UdpSession::new can have created: one per send call at most
SessionIds == 1..MaxCalls

\* mpsc::channel(1): the capacity of a session's outbound channel
SendChanCap == 1

\* mpsc::channel(1): the capacity of the connection's reply channel
RecvChanCap == 1

\* a HashMap slot without a session
Vacant == 0

\* a session UdpSession::new has not created
NoSession ==
    [assoc_id |-> 0, run |-> "none", tx |-> FALSE, chan |-> <<>>, recv |-> "idle",
     buf |-> 0]

\* a session whose listen_receive is given the first assoc_id, whatever the
\* assoc_id of the call
NewSession_FirstId(assoc_id) ==
    [assoc_id |-> 1, run |-> "running", tx |-> TRUE, chan |-> <<>>,
     recv |-> "idle", buf |-> 0]

\* UdpSession::new: the outbound channel, its Sender kept for the map, and the
\* spawned worker pair (listen_send, listen_receive) on a fresh socket
NewSession(assoc_id) ==
    [assoc_id |-> assoc_id, run |-> "running", tx |-> TRUE, chan |-> <<>>,
     recv |-> "idle", buf |-> 0]

NoArg == [id |-> 0, pkt |-> 0, sid |-> 0, wait |-> FALSE]

\* no packet transmitted yet, no tuple dispatched yet
NoPacket == [sock |-> 0, id |-> 0, pkt |-> 0]

NoTuple == [assoc_id |-> 0, buf |-> 0]

\* Sender::send completes only when the channel has room: a channel that
\* never makes its sender wait
HasCapacity_Unbounded(chan) == TRUE

\* Sender::send((pkt, addr)).await completes once the channel of
\* mpsc::channel(1) holds fewer messages than its capacity
HasCapacity(chan) == Len(chan) < SendChanCap

\* Entry::Occupied of map.entry(assoc_id) never taken
EntryOccupied_Never(map, assoc_id) == FALSE

\* map.entry(assoc_id) is Entry::Occupied
EntryOccupied(map, assoc_id) == map[assoc_id] # Vacant

\* a removal that empties the map
MapRemove_Clears(map, assoc_id) == [i \in AssocIds |-> Vacant]

\* HashMap::remove: the map without the session of assoc_id
MapRemove(map, assoc_id) == [map EXCEPT ![assoc_id] = Vacant]

\* a removal that keeps the Sender of the removed UdpSession alive
DropSender_KeepsSender(sess, sid) == sess

\* dropping the UdpSession a removal returns drops its Sender
DropSender(sess, sid) ==
    IF sid = Vacant THEN sess ELSE [sess EXCEPT ![sid].tx = FALSE]

UdpInit ==
    /\ u_map = [i \in AssocIds |-> Vacant]
    /\ u_mutex = 0
    /\ u_pc = [c \in Callers |-> "idle"]
    /\ u_arg = [c \in Callers |-> NoArg]
    /\ u_sess = [s \in SessionIds |-> NoSession]
    /\ u_nsess = 0
    /\ u_tasks = {}
    /\ u_rchan = <<>>
    /\ u_sent = NoPacket
    /\ u_delivered = NoTuple
    /\ u_calls = 0
    /\ u_recvs = 0

UdpIdle ==
    /\ u_map = <<>>
    /\ u_mutex = 0
    /\ u_pc = <<>>
    /\ u_arg = <<>>
    /\ u_sess = <<>>
    /\ u_nsess = 0
    /\ u_tasks = {}
    /\ u_rchan = <<>>
    /\ u_sent = NoPacket
    /\ u_delivered = NoTuple
    /\ u_calls = 0
    /\ u_recvs = 0

\* a task calls UdpSessionMap::send(assoc_id, pkt, addr)
SendCall(c, id) ==
    /\ u_pc[c] = "idle"
    /\ u_calls < MaxCalls
    /\ u_calls' = u_calls + 1
    /\ u_pc' = [u_pc EXCEPT ![c] = "send_lock"]
    /\ u_arg' = [u_arg EXCEPT ![c] = [id |-> id, pkt |-> u_calls + 1, sid |-> 0,
                                         wait |-> FALSE]]
    /\ UNCHANGED <<u_map, u_mutex, u_sess, u_nsess, u_tasks, u_rchan, u_sent,
                   u_delivered, u_recvs, notUdp>>

\* send: self.map.lock(), then map.entry(assoc_id) is Occupied
SendLockOccupied(c) ==
    /\ u_pc[c] = "send_lock"
    /\ u_mutex = 0
    /\ EntryOccupied(u_map, u_arg[c].id)
    /\ u_mutex' = c
    /\ u_pc' = [u_pc EXCEPT ![c] = "send_chan"]
    /\ u_arg' = [u_arg EXCEPT ![c].sid = u_map[u_arg[c].id]]
    /\ UNCHANGED <<u_map, u_sess, u_nsess, u_tasks, u_rchan, u_sent, u_delivered,
                   u_calls, u_recvs, notUdp>>

\* send: self.map.lock(), then map.entry(assoc_id) is Vacant
SendLockVacant(c) ==
    /\ u_pc[c] = "send_lock"
    /\ u_mutex = 0
    /\ ~EntryOccupied(u_map, u_arg[c].id)
    /\ u_mutex' = c
    /\ u_pc' = [u_pc EXCEPT ![c] = "send_bind"]
    /\ UNCHANGED <<u_map, u_arg, u_sess, u_nsess, u_tasks, u_rchan, u_sent,
                   u_delivered, u_calls, u_recvs, notUdp>>

\* send, Vacant: UdpSession::new returns Ok and entry.insert records the session
SendBindOk(c) ==
    /\ u_pc[c] = "send_bind"
    /\ u_nsess' = u_nsess + 1
    /\ u_sess' = [DropSender(u_sess, u_map[u_arg[c].id])
                    EXCEPT ![u_nsess + 1] = NewSession(u_arg[c].id)]
    /\ u_map' = [u_map EXCEPT ![u_arg[c].id] = u_nsess + 1]
    /\ u_arg' = [u_arg EXCEPT ![c].sid = u_nsess + 1]
    /\ u_pc' = [u_pc EXCEPT ![c] = "send_chan"]
    /\ UNCHANGED <<u_mutex, u_tasks, u_rchan, u_sent, u_delivered, u_calls, u_recvs, notUdp>>

\* send, Vacant: UdpSocket::bind fails, the error is printed and send returns
SendBindErr(c) ==
    /\ u_pc[c] = "send_bind"
    /\ u_mutex' = 0
    /\ u_pc' = [u_pc EXCEPT ![c] = "idle"]
    /\ u_arg' = [u_arg EXCEPT ![c] = NoArg]
    /\ UNCHANGED <<u_map, u_sess, u_nsess, u_tasks, u_rchan, u_sent, u_delivered,
                   u_calls, u_recvs, notUdp>>

\* polling Sender::send((pkt, addr)) of session s returns Ready: the channel has
\* room, or its receiver is gone
SendReady(sess, s) == sess[s].run # "running" \/ HasCapacity(sess[s].chan)

\* send: Sender::send((pkt, addr)).await is polled and returns Pending, the
\* channel being full; the task is suspended with the guard of the map alive
SendChanPending(c) ==
    /\ u_pc[c] = "send_chan"
    /\ ~u_arg[c].wait
    /\ ~SendReady(u_sess, u_arg[c].sid)
    /\ u_arg' = [u_arg EXCEPT ![c].wait = TRUE]
    /\ UNCHANGED <<u_map, u_mutex, u_pc, u_sess, u_nsess, u_tasks, u_rchan, u_sent,
                   u_delivered, u_calls, u_recvs, notUdp>>

\* send: Sender::send((pkt, addr)).await completes, with the packet queued or,
\* the receiver gone, with an error that is ignored; the guard drops the lock
SendChan(c) ==
    /\ u_pc[c] = "send_chan"
    /\ LET s == u_arg[c].sid IN
        /\ SendReady(u_sess, s)
        /\ u_sess' = IF u_sess[s].run = "running"
                     THEN [u_sess EXCEPT ![s].chan =
                             Append(@, [sock |-> s, id |-> u_arg[c].id, pkt |-> u_arg[c].pkt])]
                     ELSE u_sess
    /\ u_mutex' = 0
    /\ u_pc' = [u_pc EXCEPT ![c] = "idle"]
    /\ u_arg' = [u_arg EXCEPT ![c] = NoArg]
    /\ UNCHANGED <<u_map, u_nsess, u_tasks, u_rchan, u_sent, u_delivered, u_calls,
                   u_recvs, notUdp>>

\* a task calls UdpSessionMap::dissociate(assoc_id)
DissociateCall(c, id) ==
    /\ u_pc[c] = "idle"
    /\ u_calls < MaxCalls
    /\ u_calls' = u_calls + 1
    /\ u_pc' = [u_pc EXCEPT ![c] = "dis_lock"]
    /\ u_arg' = [u_arg EXCEPT ![c] = [id |-> id, pkt |-> 0, sid |-> 0,
                                         wait |-> FALSE]]
    /\ UNCHANGED <<u_map, u_mutex, u_sess, u_nsess, u_tasks, u_rchan, u_sent,
                   u_delivered, u_recvs, notUdp>>

\* dissociate: self.map.lock().remove(&assoc_id), the removed session dropped
DissociateRun(c) ==
    /\ u_pc[c] = "dis_lock"
    /\ u_mutex = 0
    /\ u_map' = MapRemove(u_map, u_arg[c].id)
    /\ u_sess' = DropSender(u_sess, u_map[u_arg[c].id])
    /\ u_pc' = [u_pc EXCEPT ![c] = "idle"]
    /\ u_arg' = [u_arg EXCEPT ![c] = NoArg]
    /\ UNCHANGED <<u_mutex, u_nsess, u_tasks, u_rchan, u_sent, u_delivered, u_calls,
                   u_recvs, notUdp>>

\* listen_send: send_pkt_rx.recv() yields a packet, a task is spawned to send it
ListenSendRecv(s) ==
    /\ u_sess[s].run = "running"
    /\ u_sess[s].chan # <<>>
    /\ u_tasks' = u_tasks \cup {Head(u_sess[s].chan)}
    /\ u_sess' = [u_sess EXCEPT ![s].chan = Tail(@)]
    /\ UNCHANGED <<u_map, u_mutex, u_pc, u_arg, u_nsess, u_rchan, u_sent, u_delivered,
                   u_calls, u_recvs, notUdp>>

\* listen_send: recv() yields None (channel empty, Sender dropped), bail!;
\* try_join! returns the error and drops listen_receive with what it holds
ListenSendClosed(s) ==
    /\ u_sess[s].run = "running"
    /\ u_sess[s].chan = <<>>
    /\ ~u_sess[s].tx
    /\ u_sess' = [u_sess EXCEPT ![s].run = "exited", ![s].recv = "idle", ![s].buf = 0]
    /\ UNCHANGED <<u_map, u_mutex, u_pc, u_arg, u_nsess, u_tasks, u_rchan, u_sent,
                   u_delivered, u_calls, u_recvs, notUdp>>

\* the task listen_send spawned: socket.send_to succeeds
SendToOk(t) ==
    /\ t \in u_tasks
    /\ u_tasks' = u_tasks \ {t}
    /\ u_sent' = t
    /\ UNCHANGED <<u_map, u_mutex, u_pc, u_arg, u_sess, u_nsess, u_rchan, u_delivered,
                   u_calls, u_recvs, notUdp>>

\* the task listen_send spawned: socket.send_to fails, the error is printed
SendToErr(t) ==
    /\ t \in u_tasks
    /\ u_tasks' = u_tasks \ {t}
    /\ UNCHANGED <<u_map, u_mutex, u_pc, u_arg, u_sess, u_nsess, u_rchan, u_sent,
                   u_delivered, u_calls, u_recvs, notUdp>>

\* listen_receive whose Err arm ends the worker pair instead of looping
AfterRecvFromErr_Exits(sess, s) ==
    [sess EXCEPT ![s].run = "exited", ![s].recv = "idle", ![s].buf = 0]

\* listen_receive, Err arm: eprintln!, then the next iteration of the loop
AfterRecvFromErr(sess, s) == [sess EXCEPT ![s].recv = "idle"]

\* listen_receive: socket.recv_from yields a datagram, truncated into buf
RecvFromOk(s) ==
    /\ u_sess[s].run = "running"
    /\ u_sess[s].recv = "idle"
    /\ u_recvs < MaxRecvs
    /\ u_recvs' = u_recvs + 1
    /\ u_sess' = [u_sess EXCEPT ![s].recv = "forwarding",
                                ![s].buf = [sock |-> s, n |-> u_recvs + 1]]
    /\ UNCHANGED <<u_map, u_mutex, u_pc, u_arg, u_nsess, u_tasks, u_rchan, u_sent,
                   u_delivered, u_calls, notUdp>>

\* listen_receive: socket.recv_from returns an error, the error is printed,
\* the loop goes on
RecvFromErr(s) ==
    /\ u_sess[s].run = "running"
    /\ u_sess[s].recv = "idle"
    /\ u_recvs < MaxRecvs
    /\ u_recvs' = u_recvs + 1
    /\ u_sess' = AfterRecvFromErr(u_sess, s)
    /\ UNCHANGED <<u_map, u_mutex, u_pc, u_arg, u_nsess, u_tasks, u_rchan,
                   u_sent, u_delivered, u_calls, notUdp>>

\* listen_receive: recv_pkt_tx.send((assoc_id, buf, addr)).await completes
ForwardReceived(s) ==
    /\ u_sess[s].run = "running"
    /\ u_sess[s].recv = "forwarding"
    /\ Len(u_rchan) < RecvChanCap
    /\ u_rchan' = Append(u_rchan, [assoc_id |-> u_sess[s].assoc_id, buf |-> u_sess[s].buf])
    /\ u_sess' = [u_sess EXCEPT ![s].recv = "idle", ![s].buf = 0]
    /\ UNCHANGED <<u_map, u_mutex, u_pc, u_arg, u_nsess, u_tasks, u_sent, u_delivered,
                   u_calls, u_recvs, notUdp>>

\* the connection's receive dispatcher: recv_pkt_rx.recv() yields a tuple
DispatchReceived ==
    /\ u_rchan # <<>>
    /\ u_delivered' = Head(u_rchan)
    /\ u_rchan' = Tail(u_rchan)
    /\ UNCHANGED <<u_map, u_mutex, u_pc, u_arg, u_sess, u_nsess, u_tasks, u_sent,
                   u_calls, u_recvs, notUdp>>

UdpNext ==
    \/ \E c \in Callers, id \in AssocIds : SendCall(c, id)
    \/ \E c \in Callers : SendLockOccupied(c)
    \/ \E c \in Callers : SendLockVacant(c)
    \/ \E c \in Callers : SendBindOk(c)
    \/ \E c \in Callers : SendBindErr(c)
    \/ \E c \in Callers : SendChanPending(c)
    \/ \E c \in Callers : SendChan(c)
    \/ \E c \in Callers, id \in AssocIds : DissociateCall(c, id)
    \/ \E c \in Callers : DissociateRun(c)
    \/ \E s \in SessionIds : ListenSendRecv(s)
    \/ \E s \in SessionIds : ListenSendClosed(s)
    \/ \E t \in u_tasks : SendToOk(t)
    \/ \E t \in u_tasks : SendToErr(t)
    \/ \E s \in SessionIds : RecvFromOk(s)
    \/ \E s \in SessionIds : RecvFromErr(s)
    \/ \E s \in SessionIds : ForwardReceived(s)
    \/ DispatchReceived

----------------------------------------------------------------------------
(* Connection state machine: authentication gating of the demultiplexer's tasks *)

\* the token digest the server is configured with, and another one
ConfigToken == TokenA

TokenB == [i \in 1..TokenLen |-> 255 - i]

\* what a peer sends on one connection, by the source it arrives on
ConnWire ==
    {[src |-> "UniStream", bytes |-> Encode(CmdAuthenticate(ConfigToken))],
     [src |-> "UniStream", bytes |-> Encode(CmdAuthenticate(TokenB))],
     [src |-> "BiStream", bytes |-> Encode(CmdConnect(AddrV4))],
     [src |-> "UniStream", bytes |-> Encode(CmdPacket(7, 0, 1, 0, 1, AddrV4)) \o <<9>>],
     [src |-> "Datagram", bytes |-> Encode(CmdPacket(7, 1, 1, 0, 1, AddrV4)) \o <<9>>],
     [src |-> "UniStream", bytes |-> Encode(CmdDissociate(7))],
     [src |-> "UniStream", bytes |-> Encode(CmdHeartbeat)],
     [src |-> "Datagram", bytes |-> Encode(CmdHeartbeat)]}

\* the pending task poll_next emits for what arrived as the n-th item
PendingOf(w, n) ==
    CASE w.src = "BiStream" -> PendingBiStream(Stream(n, w.bytes))
      [] w.src = "UniStream" -> PendingUniStream(Stream(n, w.bytes))
      [] w.src = "Datagram" -> PendingDatagram(w.bytes, ConnPktBuf)

NoTask == [n |-> 0, task |-> "None", token |-> <<>>]

\* an accepted task as the connection handles it: its arrival number, its kind
\* and, for Authenticate, its token
ConnTask(n, task) ==
    [n |-> n, task |-> task.task,
     token |-> IF task.task = "Authenticate" THEN task.token ELSE <<>>]

\* the constant-time comparison of a token with the configured digest
TokenMatches(token) == token = ConfigToken

\* whether a task is held or run at once; here, run whatever the state
MayExecute_Always(state) == TRUE

\* whether the connection runs a task other than Authenticate as it arrives
MayExecute(state) == state = "Authenticated"

ConnInit ==
    /\ c_state = "Pending"
    /\ c_task = NoTask
    /\ c_held = <<>>
    /\ c_exec = <<>>
    /\ c_n = 0
    /\ c_err = "None"

ConnIdle ==
    /\ c_state = "Off"
    /\ c_task = NoTask
    /\ c_held = <<>>
    /\ c_exec = <<>>
    /\ c_n = 0
    /\ c_err = "None"

\* the demultiplexer emits a pending task and accept() yields a task
ConnAccept ==
    /\ c_task = NoTask
    /\ c_n < MaxArrivals
    /\ c_state \in {"Pending", "Authenticated"}
    /\ \E w \in ConnWire :
        LET r == Accept(PendingOf(w, c_n + 1)) IN
        /\ r.ok
        /\ c_task' = ConnTask(c_n + 1, r.val)
    /\ c_n' = c_n + 1
    /\ UNCHANGED <<c_state, c_held, c_exec, c_err, notConn>>

\* the demultiplexer emits a pending task and accept() yields an error: the
\* offending stream or datagram is dropped
ConnAcceptError ==
    /\ c_task = NoTask
    /\ c_n < MaxArrivals
    /\ c_state \in {"Pending", "Authenticated"}
    /\ \E w \in ConnWire : ~Accept(PendingOf(w, c_n + 1)).ok
    /\ c_n' = c_n + 1
    /\ UNCHANGED <<c_state, c_task, c_held, c_exec, c_err, notConn>>

\* Pending -> Authenticated: the first Authenticate with a matching token; the
\* held tasks are executed in arrival order
ConnAuthenticate ==
    /\ c_task.task = "Authenticate"
    /\ c_state = "Pending"
    /\ TokenMatches(c_task.token)
    /\ c_state' = "Authenticated"
    /\ c_exec' = c_exec \o c_held
    /\ c_held' = <<>>
    /\ c_task' = NoTask
    /\ UNCHANGED <<c_n, c_err, notConn>>

\* an Authenticate whose token does not match: AuthFailed, fatal
ConnAuthFailed ==
    /\ c_task.task = "Authenticate"
    /\ c_state = "Pending"
    /\ ~TokenMatches(c_task.token)
    /\ c_state' = "Closing"
    /\ c_err' = "AuthFailed"
    /\ c_held' = <<>>
    /\ c_task' = NoTask
    /\ UNCHANGED <<c_exec, c_n, notConn>>

\* an Authenticate on an authenticated connection: DuplicatedAuth, fatal
ConnDuplicatedAuth ==
    /\ c_task.task = "Authenticate"
    /\ c_state = "Authenticated"
    /\ c_state' = "Closing"
    /\ c_err' = "DuplicatedAuth"
    /\ c_task' = NoTask
    /\ UNCHANGED <<c_held, c_exec, c_n, notConn>>

\* a task other than Authenticate on an authenticated connection is executed
ConnExecute ==
    /\ c_task.task \notin {"None", "Authenticate"}
    /\ MayExecute(c_state)
    /\ c_exec' = Append(c_exec, c_task)
    /\ c_task' = NoTask
    /\ UNCHANGED <<c_state, c_held, c_n, c_err, notConn>>

\* a task other than Authenticate before authentication is held
ConnHold ==
    /\ c_task.task \notin {"None", "Authenticate"}
    /\ ~MayExecute(c_state)
    /\ Len(c_held) < HoldCap
    /\ c_held' = Append(c_held, c_task)
    /\ c_task' = NoTask
    /\ UNCHANGED <<c_state, c_exec, c_n, c_err, notConn>>

\* a task other than Authenticate before authentication, the holding area
\* full, is rejected
ConnReject ==
    /\ c_task.task \notin {"None", "Authenticate"}
    /\ ~MayExecute(c_state)
    /\ Len(c_held) >= HoldCap
    /\ c_task' = NoTask
    /\ UNCHANGED <<c_state, c_held, c_exec, c_n, c_err, notConn>>

\* Closing -> Closed
ConnClose ==
    /\ c_state = "Closing"
    /\ c_state' = "Closed"
    /\ UNCHANGED <<c_task, c_held, c_exec, c_n, c_err, notConn>>

ConnNext ==
    \/ ConnAccept
    \/ ConnAcceptError
    \/ ConnAuthenticate
    \/ ConnAuthFailed
    \/ ConnDuplicatedAuth
    \/ ConnExecute
    \/ ConnHold
    \/ ConnReject
    \/ ConnClose

----------------------------------------------------------------------------
(* Configuration loaders of the clients: src/client/src/config.rs and *)
(* src/tuic-client/src/config.rs *)

\* Option<T>
None == [some |-> FALSE]
Some(v) == [some |-> TRUE, val |-> v]

\* Option::or
OptionOr(a, b) == IF a.some THEN a ELSE b

\* the value of an option, or the serde default of an absent field
UnwrapOr(a, d) == IF a.some THEN a.val ELSE d

\* Result<_, ConfigError>
ConfigOk(v) == [ok |-> TRUE, val |-> v]
ConfigErr(e) == [ok |-> FALSE, err |-> e]
NoConfigResult == [ok |-> FALSE, err |-> "None"]

\* client, mod default: max_idle_time and heartbeat_interval, in milliseconds
DefaultMaxIdleTime == 15000
DefaultHeartbeatInterval == 10000

\* tuic-client, mod default::relay: timeout is Duration::from_secs(8), here in
\* milliseconds
DefaultRelayTimeout == 8 * 1000

\* tuic-client with a default heartbeat as long as its default timeout
DefaultRelayHeartbeat_AsTimeout == 8 * 1000

\* tuic-client, mod default::relay: heartbeat is Duration::from_secs(3)
DefaultRelayHeartbeat == 3 * 1000

\* u8::to_ascii_lowercase: only the bytes of 'A'..'Z' change
ToAsciiLowercase_Identity(b) == b

ToAsciiLowercase(b) == IF b >= 65 /\ b <= 90 THEN b + 32 ELSE b

\* str::eq_ignore_ascii_case, on the bytes of the two strings
EqIgnoreAsciiCase(a, b) ==
    /\ Len(a) = Len(b)
    /\ \A i \in 1..Len(a) : ToAsciiLowercase(a[i]) = ToAsciiLowercase(b[i])

\* the bytes of "cubic", "new_reno", "newreno" and "bbr"
StrCubic == <<99, 117, 98, 105, 99>>
StrNewUnderscoreReno == <<110, 101, 119, 95, 114, 101, 110, 111>>
StrNewReno == <<110, 101, 119, 114, 101, 110, 111>>
StrBbr == <<98, 98, 114>>

\* client, CongestionController::from_str
CongestionControllerFromStr(s) ==
    IF EqIgnoreAsciiCase(s, StrCubic) THEN ConfigOk("Cubic")
    ELSE IF EqIgnoreAsciiCase(s, StrNewUnderscoreReno) \/ EqIgnoreAsciiCase(s, StrNewReno)
    THEN ConfigOk("NewReno")
    ELSE IF EqIgnoreAsciiCase(s, StrBbr) THEN ConfigOk("Bbr")
    ELSE ConfigErr("InvalidCongestionController")

\* tuic-server, utils: CongestionController::from_str
ServerCongestionControllerFromStr(s) ==
    IF EqIgnoreAsciiCase(s, StrCubic) THEN ConfigOk("Cubic")
    ELSE IF EqIgnoreAsciiCase(s, StrNewUnderscoreReno) \/ EqIgnoreAsciiCase(s, StrNewReno)
    THEN ConfigOk("NewReno")
    ELSE IF EqIgnoreAsciiCase(s, StrBbr) THEN ConfigOk("Bbr")
    ELSE ConfigErr("invalid congestion control")

\* client, mod default: congestion_controller
DefaultCongestionController == "Cubic"

\* tuic-client, mod default::relay: congestion_control
DefaultRelayCongestionControl == "Cubic"

\* tuic-server, utils: the variant of CongestionController marked as Default
ServerDefaultCongestionController == "Bbr"

\* client, RawConfig::parse: the options of the command line merged over the
\* config file (or over the defaults when no config file is given)
RawConfigParse(args, file) ==
    LET from_file ==
            IF file.congestion_controller.some
            THEN CongestionControllerFromStr(file.congestion_controller.val)
            ELSE ConfigOk(DefaultCongestionController)
        from_args ==
            IF args.congestion_controller.some
            THEN CongestionControllerFromStr(args.congestion_controller.val)
            ELSE ConfigOk("None")
    IN
    IF args.config /\ ~from_file.ok THEN ConfigErr("ParseConfigJson")
    ELSE IF ~args.required THEN ConfigErr("MissingOption")
    ELSE IF ~from_args.ok THEN from_args
    ELSE LET base ==
                IF args.config
                THEN [congestion_controller |-> from_file.val,
                      max_idle_time |-> UnwrapOr(file.max_idle_time, DefaultMaxIdleTime),
                      heartbeat_interval |->
                          UnwrapOr(file.heartbeat_interval, DefaultHeartbeatInterval),
                      username |-> file.username,
                      password |-> file.password]
                ELSE [congestion_controller |-> DefaultCongestionController,
                      max_idle_time |-> DefaultMaxIdleTime,
                      heartbeat_interval |-> DefaultHeartbeatInterval,
                      username |-> None,
                      password |-> None]
         IN ConfigOk([congestion_controller |->
                          IF args.congestion_controller.some THEN from_args.val
                          ELSE base.congestion_controller,
                      max_idle_time |-> UnwrapOr(args.max_idle_time, base.max_idle_time),
                      heartbeat_interval |->
                          UnwrapOr(args.heartbeat_interval, base.heartbeat_interval),
                      username |-> OptionOr(args.local_username, base.username),
                      password |-> OptionOr(args.local_password, base.password)])

\* a lone username or password taken as no authentication
Socks5Authentication_LoneIsNone(username, password) ==
    IF username.some /\ password.some
    THEN [kind |-> "Password", username |-> username.val, password |-> password.val]
    ELSE [kind |-> "None"]

\* client, Config::parse: the match on (raw.local.username, raw.local.password)
Socks5Authentication(username, password) ==
    CASE ~username.some /\ ~password.some -> [kind |-> "None"]
      [] username.some /\ password.some ->
            [kind |-> "Password", username |-> username.val, password |-> password.val]
      [] OTHER -> [kind |-> "LocalAuthentication"]

\* client, Config::parse
ClientConfigParse(args, file, certificate_ok) ==
    LET raw == RawConfigParse(args, file) IN
    IF ~raw.ok THEN raw
    ELSE IF ~certificate_ok THEN ConfigErr("Certificate")
    ELSE IF raw.val.max_idle_time <= raw.val.heartbeat_interval
    THEN ConfigErr("HeartbeatInterval")
    ELSE LET auth == Socks5Authentication(raw.val.username, raw.val.password) IN
        IF auth.kind = "LocalAuthentication" THEN ConfigErr("LocalAuthentication")
        ELSE ConfigOk([congestion_controller |-> raw.val.congestion_controller,
                       max_idle_timeout |-> raw.val.max_idle_time,
                       heartbeat_interval |-> raw.val.heartbeat_interval,
                       socks5_authentication |-> auth])

\* tuic-client, Config::parse: the loop over the arguments after the binary
\* name. lexopt's Parser::value() takes the next argument whatever it looks
\* like and fails when there is none.
RECURSIVE ParseArguments(_, _)
ParseArguments(args, path) ==
    IF args = <<>> THEN ConfigOk(path)
    ELSE LET arg == Head(args) IN
        IF arg \in {"-c", "--config"}
        THEN IF path.some \/ Len(args) < 2 THEN ConfigErr("Argument")
             ELSE ParseArguments(SubSeq(args, 3, Len(args)), Some(args[2]))
        ELSE IF arg \in {"-v", "--version"} THEN ConfigErr("Version")
        ELSE IF arg \in {"-h", "--help"} THEN ConfigErr("Help")
        ELSE ConfigErr("Argument")

\* tuic-client, Config::parse: the arguments scanned, then the config file
\* deserialized, absent fields taking their serde defaults
TuicClientConfigParse(args, file) ==
    LET path == ParseArguments(args, None) IN
    IF ~path.ok THEN path
    ELSE IF ~path.val.some THEN ConfigErr("NoConfig")
    ELSE IF ~file.readable THEN ConfigErr("Io")
    ELSE ConfigOk([relay |-> [congestion_control |->
                                  UnwrapOr(file.congestion_control,
                                           DefaultRelayCongestionControl),
                              timeout |-> UnwrapOr(file.timeout, DefaultRelayTimeout),
                              heartbeat |-> UnwrapOr(file.heartbeat, DefaultRelayHeartbeat)],
                   local |-> [username |-> file.username, password |-> file.password]])

\* tuic-server, Config::parse: the outcome of its argument scan is an input;
\* the congestion control option is parsed from its string, and is the
\* Default of CongestionController when absent
ServerConfigParse(scan, congestion_control) ==
    IF scan # "Ok" THEN ConfigErr(scan)
    ELSE IF ~congestion_control.some
    THEN ConfigOk([congestion_control |-> ServerDefaultCongestionController])
    ELSE LET cc == ServerCongestionControllerFromStr(congestion_control.val) IN
        IF cc.ok THEN ConfigOk([congestion_control |-> cc.val]) ELSE cc

\* main of tuic-client and of tuic-server, the match on Config::parse: the
\* message of Version and Help goes to stdout with exit code 0, every other
\* error to stderr with exit code 1
ExitOnConfigError_AlwaysFailure(err) == Some([code |-> 1, out |-> "stderr"])

ExitOnConfigError(err) ==
    IF err \in {"Version", "Help"} THEN Some([code |-> 0, out |-> "stdout"])
    ELSE Some([code |-> 1, out |-> "stderr"])

\* main of tuic-client: a configuration error exits; then
\* Connection::set_config and Socks5Server::set_config, a failure of either
\* exits with code 1; then the SOCKS5 server runs
TuicClientMain(res, relay_ok, local_ok) ==
    IF ~res.ok THEN ExitOnConfigError(res.err)
    ELSE IF ~relay_ok \/ ~local_ok THEN Some([code |-> 1, out |-> "stderr"])
    ELSE None

\* main of tuic-server: a configuration error exits; then Server::init, a
\* failure exits with code 1; then the server runs
TuicServerMain(res, init_ok) ==
    IF ~res.ok THEN ExitOnConfigError(res.err)
    ELSE IF ~init_ok THEN Some([code |-> 1, out |-> "stderr"])
    ELSE None

\* most arguments after the binary name on a generated command line
MaxArgs == 3

\* the strings given for the congestion control option: the four names in
\* lower, upper and mixed case, and strings that are none of them ("reno",
\* "new-reno", "new" DEL "reno", "", "bb", "cubic ", "bbr2", and "cubic" with
\* a dotless i in UTF-8)
CongestionStrings ==
    {StrCubic, <<67, 85, 66, 73, 67>>, <<67, 117, 98, 105, 99>>,
     StrNewUnderscoreReno, <<78, 69, 87, 95, 82, 69, 78, 79>>,
     StrNewReno, <<78, 101, 119, 82, 101, 110, 111>>,
     StrBbr, <<66, 66, 82>>, <<66, 98, 114>>,
     <<114, 101, 110, 111>>, <<110, 101, 119, 45, 114, 101, 110, 111>>,
     <<110, 101, 119, 127, 114, 101, 110, 111>>, <<>>, <<98, 98>>,
     <<99, 117, 98, 105, 99, 32>>, <<98, 98, 114, 50>>,
     <<99, 117, 98, 196, 177, 99>>}

CongestionOptions == {None} \cup {Some(str) : str \in CongestionStrings}

\* a config file of the client without any of the fields modelled
EmptyClientFile ==
    [congestion_controller |-> None, max_idle_time |-> None,
     heartbeat_interval |-> None, username |-> None, password |-> None]

\* the config files and command lines of the client the inputs choose from,
\* durations in milliseconds
ClientFiles ==
    [congestion_controller : {None},
     max_idle_time : {None, Some(10000), Some(20000)},
     heartbeat_interval : {None, Some(10000), Some(15000)},
     username : {None, Some("file-user")},
     password : {None, Some("file-pass")}]

ClientArgs ==
    [config : BOOLEAN, required : BOOLEAN,
     congestion_controller : {None},
     max_idle_time : {None, Some(10000), Some(20000)},
     heartbeat_interval : {None, Some(10000), Some(15000)},
     local_username : {None, Some("arg-user")},
     local_password : {None, Some("arg-pass")}]

\* the client run on the other options with no congestion control option, and
\* on the congestion control option, in the file and on the command line,
\* with no other option
ClientInputs ==
    {[loader |-> "client", args |-> a, file |-> f, certificate_ok |-> c] :
        a \in ClientArgs, f \in ClientFiles, c \in BOOLEAN}
    \cup
    {[loader |-> "client",
      args |-> [config |-> cfg, required |-> req, congestion_controller |-> a,
                max_idle_time |-> None, heartbeat_interval |-> None,
                local_username |-> None, local_password |-> None],
      file |-> [EmptyClientFile EXCEPT !.congestion_controller = f],
      certificate_ok |-> TRUE] :
        cfg \in BOOLEAN, req \in BOOLEAN, a \in CongestionOptions,
        f \in CongestionOptions}

\* the config files of tuic-client the inputs choose from; the congestion
\* control is the value its string deserializes to
TuicClientFiles ==
    [congestion_control : {None, Some("Cubic"), Some("NewReno"), Some("Bbr")},
     timeout : {None, Some(3000), Some(8000)},
     heartbeat : {None, Some(3000), Some(10000)},
     username : {None, Some("file-user")},
     password : {None, Some("file-pass")},
     readable : BOOLEAN]

\* a config file of tuic-client without any of the fields modelled
EmptyTuicClientFile ==
    [congestion_control |-> None, timeout |-> None, heartbeat |-> None,
     username |-> None, password |-> None, readable |-> TRUE]

\* the command lines of tuic-client: up to MaxArgs arguments after the binary
\* name, each a flag, an unknown option or a plain word
ArgumentWords == {"-c", "--config", "-v", "--version", "-h", "--help", "-x", "path"}

TuicClientArgs == UNION {[1..n -> ArgumentWords] : n \in 0..MaxArgs}

\* tuic-client run on every config file with the command line "-c path", and
\* on every command line with an empty config file or an unreadable one
TuicClientInputs ==
    {[loader |-> "tuic-client", args |-> <<"-c", "path">>, file |-> f,
      relay_ok |-> TRUE, local_ok |-> TRUE] : f \in TuicClientFiles}
    \cup
    {[loader |-> "tuic-client", args |-> a,
      file |-> [EmptyTuicClientFile EXCEPT !.readable = r],
      relay_ok |-> ro, local_ok |-> lo] :
        a \in TuicClientArgs, r \in BOOLEAN, ro \in BOOLEAN, lo \in BOOLEAN}

\* tuic-server run on every outcome of its argument scan and every
\* congestion control option
TuicServerInputs ==
    {[loader |-> "tuic-server", scan |-> sc, congestion_control |-> cc,
      init_ok |-> io] :
        sc \in {"Ok", "Version", "Help", "Argument", "NoConfig", "Io"},
        cc \in CongestionOptions, io \in BOOLEAN}

\* without a config file the loader reads none
ConfigInputs ==
    {i \in ClientInputs : i.args.config \/ i.file = EmptyClientFile}
        \cup TuicClientInputs \cup TuicServerInputs

NoConfigInput == [loader |-> "none"]

ConfigInit ==
    /\ g_pc = "start"
    /\ g_in \in ConfigInputs
    /\ g_res = NoConfigResult
    /\ g_exit = None

ConfigIdle ==
    /\ g_pc = "off"
    /\ g_in = NoConfigInput
    /\ g_res = NoConfigResult
    /\ g_exit = None

\* the client: Config::parse(env::args_os())
ParseClientConfig ==
    /\ g_pc = "start"
    /\ g_in.loader = "client"
    /\ g_res' = ClientConfigParse(g_in.args, g_in.file, g_in.certificate_ok)
    /\ g_pc' = "done"
    /\ UNCHANGED <<g_in, g_exit, notConfig>>

\* main of tuic-client: Config::parse(env::args_os()); an error exits, a
\* configuration leaves main suspended at Connection::set_config(cfg.relay).await
ParseTuicClientConfig ==
    /\ g_pc = "start"
    /\ g_in.loader = "tuic-client"
    /\ g_res' = TuicClientConfigParse(g_in.args, g_in.file)
    /\ g_exit' = IF g_res'.ok THEN None ELSE ExitOnConfigError(g_res'.err)
    /\ g_pc' = IF g_res'.ok THEN "set_config" ELSE "done"
    /\ UNCHANGED <<g_in, notConfig>>

\* main of tuic-client: Connection::set_config(cfg.relay).await completes, then
\* Socks5Server::set_config(cfg.local); a failure of either exits with code 1,
\* otherwise the SOCKS5 server starts
TuicClientSetConfig ==
    /\ g_pc = "set_config"
    /\ g_in.loader = "tuic-client"
    /\ g_exit' = TuicClientMain(g_res, g_in.relay_ok, g_in.local_ok)
    /\ g_pc' = "done"
    /\ UNCHANGED <<g_in, g_res, notConfig>>

\* main of tuic-server: Config::parse(env::args_os()), then the exit or the
\* start of the server
ParseTuicServerConfig ==
    /\ g_pc = "start"
    /\ g_in.loader = "tuic-server"
    /\ g_res' = ServerConfigParse(g_in.scan, g_in.congestion_control)
    /\ g_exit' = TuicServerMain(g_res', g_in.init_ok)
    /\ g_pc' = "done"
    /\ UNCHANGED <<g_in, notConfig>>

ConfigNext ==
    ParseClientConfig \/ ParseTuicClientConfig \/ TuicClientSetConfig
        \/ ParseTuicServerConfig

\* Config::parse has returned: main has ended, or waits for the relay
\* configuration to be set
PastParse == g_pc \in {"set_config", "done"}

----------------------------------------------------------------------------
(* The merge of the incoming sources: RawIncomingTasks,                    *)
(* src/src/common/incoming.rs. SelectAll keeps its streams in a            *)
(* FuturesUnordered: a stream is polled when it is in the ready-to-run      *)
(* queue, which it enters when it is pushed and when its source wakes it.  *)

\* the streams RawIncomingTasks::new pushes, in the order it pushes them
Sources == <<"BiStreams", "UniStreams", "Datagrams">>

SourceSet == {Sources[i] : i \in 1..Len(Sources)}

\* the pending task poll_next builds from the item of a source
PendingKind(source) ==
    CASE source = "BiStreams" -> "BiStream"
      [] source = "UniStreams" -> "UniStream"
      [] source = "Datagrams" -> "Datagram"

InQueue(ready, source) == \E i \in 1..Len(ready) : ready[i] = source

HasItem(src, source) == src[source].produced > src[source].taken

\* a stream pushed back in front of the streams that are ready
Requeue_AtHead(ready, source) == <<source>> \o ready

\* SelectAll::poll_next pushes the stream that yielded an item back into the
\* FuturesUnordered: it enters the ready-to-run queue at its tail
Requeue(ready, source) == Append(ready, source)

\* the source wakes its stream, if the stream has been polled and waits
Wake(ready, set, source) ==
    IF source \in set /\ ~InQueue(ready, source) THEN Append(ready, source) ELSE ready

\* one call of SelectAll::poll_next: the streams of the ready-to-run queue
\* are polled in order. A stream with an item yields it and is pushed back;
\* a stream that has ended is dropped; a stream with nothing to yield is left
\* to wait for its source. With no stream ready the call returns Pending,
\* with no stream left it returns None.
RECURSIVE SelectAllPollNext(_, _, _)
SelectAllPollNext(ready, set, src) ==
    IF ready = <<>>
    THEN [ready |-> ready, set |-> set,
          item |-> IF set = {} THEN "None" ELSE "Pending"]
    ELSE LET source == Head(ready) IN
        IF HasItem(src, source)
        THEN [ready |-> Requeue(Tail(ready), source), set |-> set, item |-> source]
        ELSE IF src[source].ended
        THEN SelectAllPollNext(Tail(ready), set \ {source}, src)
        ELSE SelectAllPollNext(Tail(ready), set, src)

Produced(src) == src["BiStreams"].produced + src["UniStreams"].produced
                    + src["Datagrams"].produced

MergeInit ==
    /\ m_src = [source \in SourceSet |-> [produced |-> 0, taken |-> 0, ended |-> FALSE]]
    /\ m_ready = Sources
    /\ m_set = SourceSet
    /\ m_out = <<>>
    /\ m_done = FALSE
    /\ m_bypass = [source \in SourceSet |-> 0]

MergeIdle ==
    /\ m_src = [source \in SourceSet |-> [produced |-> 0, taken |-> 0, ended |-> TRUE]]
    /\ m_ready = <<>>
    /\ m_set = {}
    /\ m_out = <<>>
    /\ m_done = TRUE
    /\ m_bypass = [source \in SourceSet |-> 0]

\* the peer opens a stream or sends a datagram: the source has one more item
SourceProduce(source) ==
    /\ ~m_src[source].ended
    /\ Produced(m_src) < MaxProduced
    /\ m_src' = [m_src EXCEPT ![source].produced = @ + 1]
    /\ m_ready' = Wake(m_ready, m_set, source)
    /\ UNCHANGED <<m_set, m_out, m_done, m_bypass, notMerge>>

\* the connection closes: the source yields what it still holds, then None
SourceEnd(source) ==
    /\ ~m_src[source].ended
    /\ m_src' = [m_src EXCEPT ![source].ended = TRUE]
    /\ m_ready' = Wake(m_ready, m_set, source)
    /\ UNCHANGED <<m_set, m_out, m_done, m_bypass, notMerge>>

\* RawIncomingTasks::poll_next, called by the task that awaits the merged
\* stream
MergePollNext ==
    /\ ~m_done
    /\ LET r == SelectAllPollNext(m_ready, m_set, m_src) IN
        /\ m_ready' = r.ready
        /\ m_set' = r.set
        /\ m_done' = (r.item = "None")
        /\ IF r.item \in SourceSet
           THEN /\ m_src' = [m_src EXCEPT ![r.item].taken = @ + 1]
                /\ m_out' = Append(m_out, [src |-> PendingKind(r.item),
                                           n |-> m_src[r.item].taken + 1])
                /\ m_bypass' =
                    [source \in SourceSet |->
                        IF source # r.item /\ HasItem(m_src, source)
                        THEN m_bypass[source] + 1 ELSE 0]
           ELSE UNCHANGED <<m_src, m_out, m_bypass>>
    /\ UNCHANGED notMerge

MergeNext ==
    \/ \E source \in SourceSet : SourceProduce(source) \/ SourceEnd(source)
    \/ MergePollNext

----------------------------------------------------------------------------
(* Specifications *)

SpecSplitInit ==
    SplitInit /\ AcceptIdle /\ UdpIdle /\ ConnIdle /\ ConfigIdle /\ MergeIdle

SpecSplit == SpecSplitInit /\ [][SplitNext]_vars

\* the consumer of the iterator keeps calling next()
SplitFairness == WF_vars(SplitNextSome) /\ WF_vars(SplitNextNone)

SpecSplitFair == SpecSplitInit /\ [][SplitNext]_vars /\ SplitFairness

SpecAcceptInit ==
    AcceptInit /\ SplitIdle /\ UdpIdle /\ ConnIdle /\ ConfigIdle /\ MergeIdle

SpecAccept == SpecAcceptInit /\ [][AcceptNext]_vars

SpecUdpInit ==
    UdpInit /\ SplitIdle /\ AcceptIdle /\ ConnIdle /\ ConfigIdle /\ MergeIdle

SpecUdp == SpecUdpInit /\ [][UdpNext]_vars

\* caller c is inside Mutex::lock() while another task holds the mutex:
\* parking_lot blocks the calling thread, a thread of the runtime, until the
\* mutex is unlocked
Parked(c) == u_pc[c] \in {"send_lock", "dis_lock"} /\ u_mutex # 0

\* some thread of the runtime is blocked inside Mutex::lock()
ThreadParked == \E c \in Callers : Parked(c)

\* the runtime polls a woken task on a thread that is free: it is sure to
\* poll the worker pair of a session whose channel has a message or has
\* closed as long as no thread is blocked inside Mutex::lock(); a blocked
\* thread may be the one, or the only one, that would poll it
UdpFairness ==
    \A s \in SessionIds :
        /\ WF_vars(~ThreadParked /\ ListenSendRecv(s))
        /\ WF_vars(~ThreadParked /\ ListenSendClosed(s))

SpecUdpFair == SpecUdpInit /\ [][UdpNext]_vars /\ UdpFairness

\* a task inside send or dissociate goes on: the mutex, whenever it is free
\* again and again, is granted to a task that waits for it; UdpSocket::bind
\* completes; the first poll of Sender::send returns; a send suspended on a
\* full channel is a woken task like any other once the channel has room,
\* sure to be polled again as long as no thread is blocked inside Mutex::lock()
CallFairness ==
    \A c \in Callers :
        /\ SF_vars(SendLockOccupied(c) \/ SendLockVacant(c) \/ DissociateRun(c))
        /\ WF_vars(SendBindOk(c) \/ SendBindErr(c))
        /\ WF_vars(~u_arg[c].wait /\ (SendChan(c) \/ SendChanPending(c)))
        /\ WF_vars(~ThreadParked /\ SendChan(c))

SpecUdpLive == SpecUdpInit /\ [][UdpNext]_vars /\ UdpFairness /\ CallFairness

SpecConnInit ==
    ConnInit /\ SplitIdle /\ AcceptIdle /\ UdpIdle /\ ConfigIdle /\ MergeIdle

SpecConn == SpecConnInit /\ [][ConnNext]_vars

SpecConfigInit ==
    ConfigInit /\ SplitIdle /\ AcceptIdle /\ UdpIdle /\ ConnIdle /\ MergeIdle

SpecConfig == SpecConfigInit /\ [][ConfigNext]_vars

SpecMergeInit ==
    MergeInit /\ SplitIdle /\ AcceptIdle /\ UdpIdle /\ ConnIdle /\ ConfigIdle

\* the task that awaits the merged stream is polled again whenever a stream
\* of the SelectAll is ready
MergeFairness == WF_vars(MergePollNext)

SpecMerge == SpecMergeInit /\ [][MergeNext]_vars /\ MergeFairness

----------------------------------------------------------------------------
(* Claims about the fragment splitter, checked under SpecSplit *)

RECURSIVE Concat(_)
Concat(frags) ==
    IF frags = <<>> THEN <<>> ELSE Head(frags) \o Concat(Tail(frags))

RECURSIVE SumSizes(_)
SumSizes(frags) ==
    IF frags = <<>> THEN 0 ELSE Len(Head(frags)) + SumSizes(Tail(frags))

\* the splitter has returned its first None: s_out holds every fragment
SplitExhausted == s_pc = "done"

\* C1 (fragmentation totality): once the iterator is exhausted, the fragments
\* concatenated in emission order are the payload, byte for byte.
C1_FragmentationTotality ==
    SplitExhausted => Concat(s_out) = s_in.pkt

\* C2 (fragmentation count): len() of the fresh splitter is computed without
\* going below zero, and equals the number of fragments emitted before the
\* first None.
C2_FragmentationCount ==
    /\ s_pc # "start" => ~s_underflow
    /\ SplitExhausted => sp.len = Usize(Len(s_out))

\* C3 (single fragment): a payload no longer than the first-fragment capacity
\* is split, without failure, into exactly one fragment, the whole payload.
C3_SingleFragment ==
    Len(s_in.pkt) <= FirstPktSize(s_in.addr, s_in.max) =>
        /\ s_pc # "panicked"
        /\ SplitExhausted => s_out = <<s_in.pkt>>

\* C4 (scenario 3): 4000 bytes in 1200-byte datagrams to a domain address of
\* serialized length 10 give 4 fragments whose sizes sum to 4000, and len() is 4.
C4_Scenario3 ==
    (s_in \in Scenario3Inputs /\ SplitExhausted) =>
        /\ Len(s_out) = 4
        /\ SumSizes(s_out) = 4000
        /\ sp.len = Usize(4)

----------------------------------------------------------------------------
(* Claims about authentication gating, checked under SpecConn *)

\* the arrival numbers of a sequence of tasks increase
InArrivalOrder(tasks) ==
    \A i, j \in 1..Len(tasks) : i < j => tasks[i].n < tasks[j].n

\* what every step of the connection keeps of the gating
AuthGatingStep ==
    /\ c_exec' # c_exec => c_state' = "Authenticated"
    /\ (c_state = "Pending" /\ c_state' = "Authenticated") =>
        /\ c_task.task = "Authenticate"
        /\ TokenMatches(c_task.token)
        /\ c_exec' = c_held
        /\ c_held' = <<>>
    /\ c_state' = "Pending" => c_exec' = <<>>
    /\ c_state' # "Pending" => c_held' = <<>>
    /\ \A i \in 1..Len(c_exec') : c_exec'[i].task # "Authenticate"
    /\ \A i \in 1..Len(c_held') : c_held'[i].task # "Authenticate"
    /\ InArrivalOrder(c_exec')
    /\ InArrivalOrder(c_held')

\* C5 (authentication gating): nothing is executed while the connection is
\* Pending; a step executes tasks only on a connection that is Authenticated
\* after it; the tasks held before authentication are executed, all of them and
\* in arrival order, by the step that authenticates; a held or executed task is
\* never Authenticate; and tasks are executed in arrival order.
C5_AuthenticationGating == [][AuthGatingStep]_vars

\* two tasks held while Pending and then executed in arrival order by the
\* authentication, followed by a task executed at once
C5_Witness ==
    /\ c_state = "Authenticated"
    /\ Len(c_exec) = 3
    /\ c_exec[1].n = 1
    /\ c_exec[2].n = 2
    /\ c_exec[3].n = 4

----------------------------------------------------------------------------
(* Claims about the demultiplexer's accept, checked under SpecAccept *)

\* accept() has returned for a pending task that came from the given source
AcceptedFrom(src) == a_pc = "accepted" /\ a_pending.src = src

\* the header fields of a Packet task are those of the command
SameHeaderFields(task, cmd) ==
    /\ task.assoc_id = cmd.assoc_id
    /\ task.pkt_id = cmd.pkt_id
    /\ task.frag_total = cmd.frag_total
    /\ task.frag_id = cmd.frag_id
    /\ task.len = cmd.len
    /\ task.addr = cmd.addr

\* C6 (bi-stream): accept yields a task exactly when the peer's command is
\* Connect, and the task is Connect with that address; every other decoded
\* command yields UnexpectedCommandFromBiStream carrying the same stream and
\* the command.
C6_BiStreamConnectOnly ==
    AcceptedFrom("BiStream") =>
        /\ a_res.ok <=> a_in.cmd.type = "Connect"
        /\ a_res.ok =>
            /\ a_res.val.task = "Connect"
            /\ a_res.val.addr = a_in.cmd.addr
            /\ a_res.val.stream.id = a_pending.stream.id
        /\ a_in.cmd.type \notin {"Connect", "None"} =>
            /\ a_res.val.error = "UnexpectedCommandFromBiStream"
            /\ a_res.val.stream.id = a_pending.stream.id
            /\ a_res.val.stream.bytes = a_pending.stream.bytes
            /\ a_res.val.cmd = a_in.cmd

C6_Witness ==
    /\ AcceptedFrom("BiStream")
    /\ a_in.cmd.type = "Packet"
    /\ ~a_res.ok
    /\ a_res.val.error = "UnexpectedCommandFromBiStream"

\* C7 (uni-stream): accept yields a task exactly for Authenticate, Packet,
\* Dissociate and Heartbeat, the task of the same kind with the command's
\* fields; Connect yields UnexpectedCommandFromUniStream carrying the stream,
\* never a task.
C7_UniStreamTasks ==
    AcceptedFrom("UniStream") =>
        /\ a_res.ok <=>
            a_in.cmd.type \in {"Authenticate", "Packet", "Dissociate", "Heartbeat"}
        /\ a_in.cmd.type = "Authenticate" => a_res.val = TaskAuthenticate(a_in.cmd.token)
        /\ a_in.cmd.type = "Packet" =>
            /\ a_res.val.task = "PacketFromUniStream"
            /\ SameHeaderFields(a_res.val, a_in.cmd)
        /\ a_in.cmd.type = "Dissociate" => a_res.val = TaskDissociate(a_in.cmd.assoc_id)
        /\ a_in.cmd.type = "Heartbeat" => a_res.val = TaskHeartbeat
        /\ a_in.cmd.type = "Connect" =>
            /\ a_res.val.error = "UnexpectedCommandFromUniStream"
            /\ a_res.val.stream.id = a_pending.stream.id
            /\ a_res.val.cmd = a_in.cmd

C7_Witness ==
    /\ AcceptedFrom("UniStream")
    /\ a_in.cmd.type = "Connect"
    /\ ~a_res.ok
    /\ a_res.val.error = "UnexpectedCommandFromUniStream"

\* C8 (datagram): accept yields a task exactly when the command is Packet; the
\* task's payload is the bytes of the datagram after the encoded command, which
\* are the bytes the peer appended, and the header fields are the command's;
\* every other decoded command yields UnexpectedCommandFromDatagram.
C8_DatagramPacketOnly ==
    AcceptedFrom("Datagram") =>
        /\ a_res.ok <=> a_in.cmd.type = "Packet"
        /\ a_res.ok =>
            /\ a_res.val.task = "PacketFromDatagram"
            /\ SameHeaderFields(a_res.val, a_in.cmd)
            /\ a_res.val.pkt = a_in.payload
            /\ a_res.val.pkt = SubSeq(a_pending.datagram, SerializedLen(a_in.cmd) + 1,
                                      Len(a_pending.datagram))
        /\ a_in.cmd.type \notin {"Packet", "None"} =>
            /\ a_res.val.error = "UnexpectedCommandFromDatagram"
            /\ a_res.val.cmd = a_in.cmd

C8_Witness ==
    /\ AcceptedFrom("Datagram")
    /\ a_res.ok
    /\ a_in.cmd.type = "Packet"
    /\ a_in.cmd.addr = AddrDomain
    /\ Len(a_in.payload) = 3
    /\ a_res.val.pkt = a_in.payload

\* C9 (only the header is read): a Packet task accepted from a uni-stream holds
\* that stream with its read position just after the command header, so that
\* everything after the position is the payload, none of it read.
C9_AcceptReadsOnlyHeader ==
    (AcceptedFrom("UniStream") /\ a_res.ok /\ a_in.cmd.type = "Packet") =>
        /\ a_res.val.stream.id = a_pending.stream.id
        /\ a_res.val.stream.bytes = a_pending.stream.bytes
        /\ a_res.val.stream.pos = Len(Encode(a_in.cmd))
        /\ SubSeq(a_res.val.stream.bytes, a_res.val.stream.pos + 1,
                  Len(a_res.val.stream.bytes)) = a_in.payload

C9_Witness ==
    /\ AcceptedFrom("UniStream")
    /\ a_res.ok
    /\ a_in.cmd.type = "Packet"
    /\ Len(a_in.payload) = 3
    /\ a_res.val.stream.pos = Len(a_res.val.stream.bytes) - 3

----------------------------------------------------------------------------
(* Claims about the UDP session map, checked under SpecUdp *)

\* the sessions created for assoc_id whose Sender has not been dropped
HeldSessions(id) == {s \in SessionIds : u_sess[s].assoc_id = id /\ u_sess[s].tx}

\* at most one session per assoc_id: the one the map records, running
AtMostOneSessionPerId ==
    \A id \in AssocIds :
        /\ Cardinality(HeldSessions(id)) <= 1
        /\ HeldSessions(id) = IF u_map[id] = Vacant THEN {} ELSE {u_map[id]}
        /\ u_map[id] # Vacant => u_sess[u_map[id]].run = "running"

\* the number of sessions a step creates
CreatedByStep == u_nsess' - u_nsess

\* caller c's send, having found no session, finishes UdpSession::new in this step
SendMissStep(c) == u_pc[c] = "send_bind" /\ u_pc'[c] # "send_bind"

\* caller c's send takes the lock in this step and finds a session
SendHitStep(c) ==
    /\ u_pc[c] = "send_lock"
    /\ u_pc'[c] # "send_lock"
    /\ u_map[u_arg[c].id] # Vacant

\* the step creates one session for assoc_id and records it in the map
CreatesAndRecords(id) ==
    /\ CreatedByStep = 1
    /\ u_sess'[u_nsess'] = NewSession(id)
    /\ u_map' = [u_map EXCEPT ![id] = u_nsess']
    /\ \A s \in SessionIds \ {u_nsess'} : u_sess'[s] = u_sess[s]

\* the step creates no session and leaves the map and the sessions as they are
CreatesNothing ==
    /\ CreatedByStep = 0
    /\ u_map' = u_map
    /\ \A s \in SessionIds : u_sess'[s].run = "none" <=> u_sess[s].run = "none"

\* what every step does about sessions, but for the outcome of a miss
LookupRest ==
    /\ \A c \in Callers :
        /\ SendHitStep(c) =>
            /\ CreatesNothing
            /\ u_pc'[c] = "send_chan"
            /\ u_arg'[c].sid = u_map[u_arg[c].id]
        /\ u_pc'[c] = "send_bind" => u_map'[u_arg'[c].id] = Vacant
    /\ (\A c \in Callers : ~SendMissStep(c)) => CreatedByStep = 0
    /\ AtMostOneSessionPerId'

\* C10 as stated (miss-creates lookup): a send that finds no session creates
\* exactly one and records it under its id, a send that finds one reuses it and
\* creates nothing, and the map holds at most one session per assoc_id.
C10_MissCreatesAlways ==
    [][/\ \A c \in Callers : SendMissStep(c) => CreatesAndRecords(u_arg[c].id)
       /\ LookupRest]_vars

\* C10 as amended: a send that finds no session creates exactly one and records
\* it under its id if the socket can be bound, and if not creates nothing,
\* leaves the map unchanged and returns; a send that finds a session reuses it
\* and creates nothing; the map holds at most one session per assoc_id.
C10_MissCreatesUnlessBindFails ==
    [][/\ \A c \in Callers :
            SendMissStep(c) =>
                \/ CreatesAndRecords(u_arg[c].id)
                \/ CreatesNothing /\ u_pc'[c] = "idle"
       /\ LookupRest]_vars

\* a session created, dissociated and created again for the same assoc_id, the
\* second one recorded and in use by a send that found it
C10_Witness ==
    \E id \in AssocIds, c \in Callers :
        /\ u_nsess = 2
        /\ u_sess[1].assoc_id = id
        /\ ~u_sess[1].tx
        /\ u_map[id] = 2
        /\ u_pc[c] = "send_chan"
        /\ u_arg[c].sid = 2

----------------------------------------------------------------------------
(* Claims about the workers of a session, checked under SpecUdpFair *)

\* a session UdpSession::new created that the map holds no longer
Removed(s) == u_sess[s].run # "none" /\ u_map[u_sess[s].assoc_id] # s

\* the task UdpSession::new spawned has finished: try_join! returned the
\* error of listen_send and dropped listen_receive
WorkersStopped(s) == u_sess[s].run = "exited"

\* the fair scheduling the claims grant: the worker pair of a session is
\* eventually polled when its channel has a message or has closed
WorkersScheduled ==
    \A s \in SessionIds :
        WF_vars(ListenSendRecv(s)) /\ WF_vars(ListenSendClosed(s))

\* C11: after dissociate(id) has removed a session its outbound channel is
\* closed (its only Sender is dropped) and, the workers being scheduled
\* fairly, the task running listen_send and listen_receive eventually ends
C11_DissociateStopsWorkers ==
    /\ \A s \in SessionIds : [](Removed(s) => ~u_sess[s].tx)
    /\ WorkersScheduled => \A s \in SessionIds : Removed(s) ~> WorkersStopped(s)

\* a session removed by dissociate whose workers have stopped
C11_Witness == \E s \in SessionIds : Removed(s) /\ WorkersStopped(s)

----------------------------------------------------------------------------
(* Claims about what a session emits, checked under SpecUdp *)

\* in this step a task listen_send spawned transmits a packet on the socket
\* of session s
EmitsOutbound(s) == u_sent' # u_sent /\ u_sent'.sock = s

\* in this step listen_receive of session s forwards a tuple, tagged with its
\* assoc_id, to the connection's receive dispatcher
EmitsInbound(s) ==
    /\ Len(u_rchan') > Len(u_rchan)
    /\ u_rchan'[Len(u_rchan')].buf.sock = s

\* C12: once dissociate(id) has removed a session, no packet of that session
\* is emitted any more: none is sent on its socket and none is forwarded to
\* the receive dispatcher
C12_DissociationPurges ==
    [][\A s \in SessionIds :
        Removed(s) => ~(EmitsOutbound(s) \/ EmitsInbound(s))]_vars

\* the map holds session s: created, not removed
InMap(s) == u_sess[s].run # "none" /\ u_map[u_sess[s].assoc_id] = s

\* in this step a spawned send_to ends without having transmitted its packet
SendToFailsStep == \E t \in u_tasks : u_tasks' = u_tasks \ {t} /\ u_sent' = u_sent

\* in this step recv_from returns on the socket of session s, with a datagram
\* or with an error
RecvFromReturnsStep(s) ==
    /\ u_recvs' = u_recvs + 1
    /\ u_sess[s].run = "running" /\ u_sess[s].recv = "idle"
    /\ \A o \in SessionIds \ {s} : u_sess'[o] = u_sess[o]

\* C13: a failed send_to and a failed recv_from are only logged: the map and
\* every session are as before, the workers of the session run on, the
\* outbound channel keeps what was queued and the receive loop is back at
\* recv_from, so later packets are processed; recv_from returning never
\* stops a worker or removes a session
C13_TransmissionErrorsOnlyLogged ==
    [][/\ SendToFailsStep => u_map' = u_map /\ u_sess' = u_sess
       /\ \A s \in SessionIds :
            RecvFromReturnsStep(s) =>
                /\ u_map' = u_map
                /\ \/ u_sess'[s] = u_sess[s]
                   \/ /\ u_sess'[s].recv = "forwarding"
                      /\ u_sess'[s] = [u_sess[s] EXCEPT !.recv = "forwarding",
                                                        !.buf = u_sess'[s].buf]]_vars

\* the one packet submitted was lost to a failed send_to, and recv_from has
\* failed on the session: the map still holds it and its workers run
C13_Witness ==
    \E s \in SessionIds :
        /\ InMap(s) /\ u_sess[s].run = "running" /\ u_sess[s].recv = "idle"
        /\ u_recvs = 1 /\ u_rchan = <<>> /\ u_delivered = NoTuple
        /\ u_calls = 1 /\ u_sess[s].chan = <<>> /\ u_tasks = {} /\ u_sent = NoPacket
        /\ \A c \in Callers : u_pc[c] = "idle"

----------------------------------------------------------------------------
(* Claims about the outbound channel of a session, checked under SpecUdp *)

\* caller c is inside send, at Sender::send(..).await on the channel of a session
AwaitsChannel(c) == u_pc[c] = "send_chan"

\* in this step the send of caller c completes
SendCompletesStep(c) == AwaitsChannel(c) /\ u_pc'[c] = "idle"

\* C14: the outbound channel of every session holds at most one packet the
\* sender worker has not taken, and a send that finds the channel full
\* completes only after the worker has taken the queued packet: at the step
\* it completes the channel was empty and now holds the packet of this send
C14_ChannelCapacityOne ==
    /\ [](\A s \in SessionIds : Len(u_sess[s].chan) <= 1)
    /\ [][\A c \in Callers :
            SendCompletesStep(c) =>
                /\ u_sess[u_arg[c].sid].chan = <<>>
                /\ Len(u_sess'[u_arg[c].sid].chan) = 1
                /\ u_sess'[u_arg[c].sid].chan[1].pkt = u_arg[c].pkt]_vars

\* a send waits on a full channel: its session holds a queued packet the
\* worker has not taken
C14_Witness ==
    \E c \in Callers :
        /\ AwaitsChannel(c)
        /\ Len(u_sess[u_arg[c].sid].chan) = 1
        /\ u_sess[u_arg[c].sid].chan[1].pkt # u_arg[c].pkt

\* in this step the send of caller c returns; send returns () on every path
SendReturnsStep(c) == u_pc[c] \in {"send_bind", "send_chan"} /\ u_pc'[c] = "idle"

\* the packet of caller c's send is queued at a session of its assoc_id, from
\* where listen_send hands it to the socket
HandedOver(c) ==
    \E s \in SessionIds :
        /\ u_sess'[s].assoc_id = u_arg[c].id
        /\ \E i \in 1..Len(u_sess'[s].chan) : u_sess'[s].chan[i].pkt = u_arg[c].pkt

\* the step removes the session of caller c's assoc_id from the map
TornDown(c) ==
    EntryOccupied(u_map, u_arg[c].id) /\ ~EntryOccupied(u_map', u_arg[c].id)

\* C15: send never drops its packet silently: when it returns, the packet has
\* been handed to the session for transmission, or the failure has torn the
\* association down
C15_NoSilentDiscard ==
    [][\A c \in Callers : SendReturnsStep(c) => HandedOver(c) \/ TornDown(c)]_vars

----------------------------------------------------------------------------
(* Claims about the stream registry and the packet buffer, checked under SpecAccept *)

RECURSIVE SumHalves(_)
\* the stream halves of a set of held streams
SumHalves(S) ==
    IF S = {} THEN 0
    ELSE LET x == CHOOSE y \in S : TRUE IN x.halves + SumHalves(S \ {x})

\* the stream halves that are alive: those of the pending task, those the
\* result of accept carries, those the task layer holds
LiveHalfStreams ==
    (IF a_pc = "pending" THEN StreamHalves(a_pending) ELSE 0)
    + (IF a_pc = "accepted" /\ HoldsStream(a_res) THEN StreamHalves(a_pending) ELSE 0)
    + SumHalves(a_live)

\* C16: every stream the demultiplexer emitted is registered, twice for a
\* bi-stream and once for a uni-stream, from poll_next until it is dropped,
\* whether accept succeeds or fails: the registry count is the number of live
\* half-streams, never negative, and zero when none is alive
C16_RegistryCountsLiveStreams ==
    /\ a_reg = LiveHalfStreams
    /\ a_reg >= 0
    /\ (a_pc = "idle" /\ a_live = {}) => a_reg = 0

\* a bi-stream whose accept failed with an unexpected command is still
\* registered twice while another stream is held by the task layer
C16_Witness ==
    /\ a_pc = "accepted" /\ a_pending.src = "BiStream"
    /\ ~a_res.ok /\ a_res.val.error = "UnexpectedCommandFromBiStream"
    /\ a_live # {}
    /\ a_reg = 2 + SumHalves(a_live)

\* accept has returned a Packet task, from a datagram or from a uni-stream
PacketTaskAccepted ==
    /\ a_pc = "accepted" /\ a_res.ok
    /\ a_res.val.task \in {"PacketFromDatagram", "PacketFromUniStream"}

\* C17: every Packet task of the connection, from a datagram or from a
\* uni-stream, carries the one packet buffer of its connection, through which
\* it is reassembled
C17_OnePacketBufferForAllPaths ==
    PacketTaskAccepted =>
        /\ "pkt_buf" \in DOMAIN a_res.val
        /\ a_res.val.pkt_buf = ConnPktBuf

----------------------------------------------------------------------------
(* Claims about the configuration loaders, checked under SpecConfig *)

\* Config::parse has returned
Parsed == PastParse /\ g_in.loader \in {"client", "tuic-client"}

\* the idle timeout and the heartbeat interval of a configuration, in milliseconds
IdleTimeoutOf(res) ==
    IF g_in.loader = "client" THEN res.val.max_idle_timeout
    ELSE res.val.relay.timeout

HeartbeatOf(res) ==
    IF g_in.loader = "client" THEN res.val.heartbeat_interval
    ELSE res.val.relay.heartbeat

\* the idle time and the heartbeat interval an input sets: for the client the
\* command line first, then the config file, then the default; for
\* tuic-client the config file, then the default
InputIdleTime ==
    IF g_in.loader = "client"
    THEN UnwrapOr(g_in.args.max_idle_time,
                  UnwrapOr(g_in.file.max_idle_time, DefaultMaxIdleTime))
    ELSE UnwrapOr(g_in.file.timeout, DefaultRelayTimeout)

InputHeartbeat ==
    IF g_in.loader = "client"
    THEN UnwrapOr(g_in.args.heartbeat_interval,
                  UnwrapOr(g_in.file.heartbeat_interval, DefaultHeartbeatInterval))
    ELSE UnwrapOr(g_in.file.heartbeat, DefaultRelayHeartbeat)

\* nothing before the heartbeat check fails: the required options are given
\* and the certificates load (client), the config file is given and readable
\* (tuic-client)
ReachesHeartbeatCheck ==
    IF g_in.loader = "client"
    THEN RawConfigParse(g_in.args, g_in.file).ok /\ g_in.certificate_ok
    ELSE TuicClientConfigParse(g_in.args, g_in.file).ok

\* C18: Config::parse of a client returns a configuration only if the
\* heartbeat interval is strictly less than the maximum idle time, and
\* returns ConfigError::HeartbeatInterval when the maximum idle time is less
\* than or equal to the heartbeat interval
C18_HeartbeatBelowIdleTime ==
    Parsed =>
        /\ g_res.ok => HeartbeatOf(g_res) < IdleTimeoutOf(g_res)
        /\ (ReachesHeartbeatCheck /\ InputIdleTime <= InputHeartbeat) =>
                g_res = ConfigErr("HeartbeatInterval")

\* the input sets neither the idle time nor the heartbeat interval
AllDefaults ==
    IF g_in.loader = "client"
    THEN /\ ~g_in.args.max_idle_time.some /\ ~g_in.args.heartbeat_interval.some
         /\ ~g_in.file.max_idle_time.some /\ ~g_in.file.heartbeat_interval.some
    ELSE ~g_in.file.timeout.some /\ ~g_in.file.heartbeat.some

\* the original statement of C19: the default idle timeout is 15 s in every
\* loader
C19_DefaultIdleTimeout15s ==
    (Parsed /\ AllDefaults) =>
        /\ g_res.ok =>
            /\ IdleTimeoutOf(g_res) = 15 * 1000
            /\ IdleTimeoutOf(g_res) > HeartbeatOf(g_res)
        /\ ~g_res.ok => g_res.err # "HeartbeatInterval"

\* C19, amended: the default idle timeout is 15 s in the loader of client and
\* 8 s in the loader of tuic-client; in both it strictly exceeds the default
\* heartbeat interval, and an all-defaults configuration is not refused for
\* its heartbeat
C19_DefaultIdleTimeoutPerLoader ==
    (Parsed /\ AllDefaults) =>
        /\ g_res.ok =>
            /\ IdleTimeoutOf(g_res) =
                    (IF g_in.loader = "client" THEN 15 * 1000 ELSE 8 * 1000)
            /\ IdleTimeoutOf(g_res) > HeartbeatOf(g_res)
        /\ ~g_res.ok => g_res.err # "HeartbeatInterval"

\* tuic-client has parsed a config file that sets neither duration
C19_Witness ==
    Parsed /\ AllDefaults /\ g_in.loader = "tuic-client" /\ g_res.ok

\* the SOCKS5 credentials an input of the client sets: the command line first,
\* then the config file
InputUsername ==
    IF g_in.args.local_username.some THEN g_in.args.local_username
    ELSE IF g_in.args.config THEN g_in.file.username ELSE None

InputPassword ==
    IF g_in.args.local_password.some THEN g_in.args.local_password
    ELSE IF g_in.args.config THEN g_in.file.password ELSE None

\* the client's configuration is valid apart from its credentials
ReachesCredentialsCheck == ReachesHeartbeatCheck /\ InputIdleTime > InputHeartbeat

\* C20: the client's Config::parse, having merged the command line over the
\* config file, yields password authentication when username and password
\* are both present, no authentication when both are absent, and fails with
\* ConfigError::LocalAuthentication when exactly one is present
C20_CredentialsSetTogether ==
    (Parsed /\ g_in.loader = "client") =>
        /\ (InputUsername.some # InputPassword.some) => ~g_res.ok
        /\ ReachesCredentialsCheck =>
            CASE InputUsername.some /\ InputPassword.some ->
                    /\ g_res.ok
                    /\ g_res.val.socks5_authentication =
                        [kind |-> "Password", username |-> InputUsername.val,
                         password |-> InputPassword.val]
              [] ~InputUsername.some /\ ~InputPassword.some ->
                    g_res.ok /\ g_res.val.socks5_authentication = [kind |-> "None"]
              [] OTHER -> g_res = ConfigErr("LocalAuthentication")

\* a username given on the command line over the one of the config file, and
\* no password anywhere: the parse has failed with LocalAuthentication
C20_Witness ==
    /\ Parsed /\ g_in.loader = "client" /\ g_in.args.config
    /\ g_in.args.local_username.some /\ g_in.file.username.some
    /\ ~InputPassword.some
    /\ g_res = ConfigErr("LocalAuthentication")

----------------------------------------------------------------------------
(* Claims about the congestion control option and the exit codes, checked *)
(* under SpecConfig                                                        *)

\* the spellings of each controller among CongestionStrings, written out
CubicSpellings == {<<99, 117, 98, 105, 99>>, <<67, 85, 66, 73, 67>>, <<67, 117, 98, 105, 99>>}

NewRenoSpellings ==
    {<<110, 101, 119, 95, 114, 101, 110, 111>>, <<78, 69, 87, 95, 82, 69, 78, 79>>,
     <<110, 101, 119, 114, 101, 110, 111>>, <<78, 101, 119, 82, 101, 110, 111>>}

BbrSpellings == {<<98, 98, 114>>, <<66, 66, 82>>, <<66, 98, 114>>}

ControllerNamed(str) ==
    CASE str \in CubicSpellings -> "Cubic"
      [] str \in NewRenoSpellings -> "NewReno"
      [] str \in BbrSpellings -> "Bbr"
      [] OTHER -> "Invalid"

\* a loader that parses the option from its string has run
ParsedCongestion == PastParse /\ g_in.loader \in {"client", "tuic-server"}

\* the strings the loader reads for the option: the client reads the one of
\* the config file, when a config file is given, and the one of the command
\* line
GivenCongestionStrings ==
    IF g_in.loader = "client"
    THEN {o.val : o \in {o \in {g_in.args.congestion_controller} \cup
                            (IF g_in.args.config
                             THEN {g_in.file.congestion_controller} ELSE {}) : o.some}}
    ELSE {o.val : o \in {o \in {g_in.congestion_control} : o.some}}

\* the option in effect: the command line over the config file
CongestionOption ==
    IF g_in.loader = "client"
    THEN IF g_in.args.congestion_controller.some THEN g_in.args.congestion_controller
         ELSE IF g_in.args.config THEN g_in.file.congestion_controller ELSE None
    ELSE g_in.congestion_control

\* nothing but the congestion control option can fail the loader
ValidButCongestion ==
    IF g_in.loader = "client"
    THEN ClientConfigParse([g_in.args EXCEPT !.congestion_controller = None],
                           [g_in.file EXCEPT !.congestion_controller = None],
                           g_in.certificate_ok).ok
    ELSE g_in.scan = "Ok"

ControllerOf(res) ==
    CASE g_in.loader = "client" -> res.val.congestion_controller
      [] g_in.loader = "tuic-client" -> res.val.relay.congestion_control
      [] OTHER -> res.val.congestion_control

\* what C21 says of a loader whose default controller is dflt
CongestionControlParsed(dflt) ==
    /\ (\E str \in GivenCongestionStrings : ControllerNamed(str) = "Invalid") => ~g_res.ok
    /\ (ValidButCongestion /\
            \A str \in GivenCongestionStrings : ControllerNamed(str) # "Invalid") =>
        /\ g_res.ok
        /\ ControllerOf(g_res) =
                (IF CongestionOption.some THEN ControllerNamed(CongestionOption.val)
                 ELSE dflt)

\* the original statement of C21: the option accepts exactly cubic, new_reno,
\* newreno and bbr, compared case-insensitively, and the controller of an
\* absent option is cubic in every configuration type, client and server
C21_CongestionControlCubicDefault ==
    /\ ParsedCongestion => CongestionControlParsed("Cubic")
    /\ (PastParse /\ g_in.loader = "tuic-client" /\ g_res.ok
            /\ ~g_in.file.congestion_control.some) => ControllerOf(g_res) = "Cubic"

\* C21, amended: the option accepts exactly cubic, new_reno, newreno and bbr,
\* compared case-insensitively, in the client and in the server; the
\* controller of an absent option is cubic in client and tuic-client and bbr
\* in tuic-server
C21_CongestionControlDefaultPerType ==
    /\ ParsedCongestion =>
            CongestionControlParsed(IF g_in.loader = "tuic-server" THEN "Bbr" ELSE "Cubic")
    /\ (PastParse /\ g_in.loader = "tuic-client" /\ g_res.ok
            /\ ~g_in.file.congestion_control.some) => ControllerOf(g_res) = "Cubic"

\* the server has parsed a configuration without the option: its controller
\* is bbr
C21_Witness ==
    /\ ParsedCongestion /\ g_in.loader = "tuic-server"
    /\ ~g_in.congestion_control.some
    /\ g_res.ok /\ g_res.val.congestion_control = "Bbr"

\* a main function of the repository has run past Config::parse: it has
\* exited, started its server, or waits for the relay configuration to be set
MainDone == PastParse /\ g_in.loader \in {"tuic-client", "tuic-server"}

HelpAndVersionFlags == {"-v", "--version", "-h", "--help"}

\* the command line of tuic-client holds a help or version flag somewhere
ContainsHelpOrVersion ==
    /\ g_in.loader = "tuic-client"
    /\ \E i \in 1..Len(g_in.args) : g_in.args[i] \in HelpAndVersionFlags

\* the first argument of tuic-client, or the first one after a leading
\* "-c value", is a help or version flag
LeadsWithHelpOrVersion ==
    /\ g_in.loader = "tuic-client"
    /\ \/ Len(g_in.args) >= 1 /\ g_in.args[1] \in HelpAndVersionFlags
       \/ /\ Len(g_in.args) >= 3
          /\ g_in.args[1] \in {"-c", "--config"}
          /\ g_in.args[3] \in HelpAndVersionFlags

ExitedWith(code, out) == g_exit = Some([code |-> code, out |-> out])

\* the original statement of C22: whenever the arguments contain a help or
\* version flag the program prints the message and exits with code 0, every
\* other configuration error exits with code 1, and no configuration error
\* lets the program go on to start the relay
C22_ExitCodes ==
    MainDone =>
        /\ (ContainsHelpOrVersion \/ (~g_res.ok /\ g_res.err \in {"Version", "Help"}))
                => ExitedWith(0, "stdout")
        /\ (~g_res.ok /\ g_res.err \notin {"Version", "Help"}) => ExitedWith(1, "stderr")
        /\ ~g_res.ok => g_exit.some

\* C22, amended: when Config::parse returns Version or Help the program
\* prints the message and exits with code 0, which for tuic-client happens
\* exactly when the help or version flag is the first argument or the first
\* one after a leading "-c value"; every other configuration error exits
\* with code 1; and the program goes on to start the relay only with a
\* configuration
C22_ExitCodesByParseResult ==
    MainDone =>
        /\ (~g_res.ok /\ g_res.err \in {"Version", "Help"}) => ExitedWith(0, "stdout")
        /\ g_in.loader = "tuic-client" => (LeadsWithHelpOrVersion <=> ExitedWith(0, "stdout"))
        /\ (~g_res.ok /\ g_res.err \notin {"Version", "Help"}) => ExitedWith(1, "stderr")
        /\ ~g_res.ok => g_exit.some

\* tuic-client run as "-c path --help": the help message and exit code 0
C22_Witness ==
    /\ MainDone /\ g_in.loader = "tuic-client"
    /\ Len(g_in.args) = 3 /\ g_in.args[1] = "-c" /\ g_in.args[3] = "--help"
    /\ g_res = ConfigErr("Help")
    /\ ExitedWith(0, "stdout")

----------------------------------------------------------------------------
(* Claims about fragment sizes and the end of the fragment sequence,      *)
(* checked under SpecSplit and SpecSplitFair                               *)

\* the capacity of the i-th fragment: max_datagram_size - H - A for the first,
\* max_datagram_size - H for the later ones
FragmentCapacity(i) ==
    IF i = 1 THEN s_in.max - HeaderLen - AddrSerializedLen(s_in.addr)
    ELSE s_in.max - HeaderLen

\* C23 (fragment capacity): the first fragment has at most
\* max_datagram_size - H - A bytes and every later fragment at most
\* max_datagram_size - H bytes, and once the sequence has ended every
\* fragment except the last one is filled exactly to its capacity.
C23_FragmentCapacity ==
    /\ \A i \in 1..Len(s_out) : Len(s_out[i]) <= FragmentCapacity(i)
    /\ SplitExhausted =>
            \A i \in 1..(Len(s_out) - 1) : Len(s_out[i]) = FragmentCapacity(i)

\* the most fragments a payload gives: one for every step of max_pkt_size
\* bytes that starts inside the payload or at its end
MostFragments == Len(s_in.pkt) \div (s_in.max - HeaderLen) + 1

\* after a None, next() changes nothing and returns None again
FusedStep == s_pc = "done" => (s_out' = s_out /\ sp' = sp /\ s_pc' = "done")

\* C24 (finite fragment sequence): for every payload and every
\* max_datagram_size > H + A, an iterator that was constructed returns None
\* after finitely many fragments (at most one for every max_pkt_size bytes of
\* payload, plus one), and every call after the first None returns None.
C24_FragmentSequenceFinite ==
    /\ [](Len(s_out) <= MostFragments)
    /\ [][FusedStep]_vars
    /\ (s_pc = "iter" ~> SplitExhausted)

\* three fragments, then None twice
C24_Witness ==
    /\ SplitExhausted /\ s_nones = 2
    /\ Len(s_out) = 3
    /\ s_in.max > HeaderLen + AddrSerializedLen(s_in.addr)

----------------------------------------------------------------------------
(* Claims about the merge of the incoming sources, checked under SpecMerge *)

\* the tasks of one kind among the emitted ones, in emission order
RECURSIVE TasksOfKind(_, _)
TasksOfKind(out, kind) ==
    IF out = <<>> THEN <<>>
    ELSE IF Head(out).src = kind THEN <<Head(out).n>> \o TasksOfKind(Tail(out), kind)
    ELSE TasksOfKind(Tail(out), kind)

\* every emitted task is of the kind of its source and stands for one item
\* the source produced, the items of a source in the order it produced them
Lossless ==
    \A source \in SourceSet :
        /\ m_src[source].taken <= m_src[source].produced
        /\ TasksOfKind(m_out, PendingKind(source)) =
                [n \in 1..m_src[source].taken |-> n]

\* an item that waits is overtaken by at most one task of every other source
BoundedOvertaking == \A source \in SourceSet : m_bypass[source] <= Len(Sources) - 1

\* the merged stream has ended only if every source has ended and has handed
\* over all its items
EndsAfterAllSources ==
    m_done => \A source \in SourceSet :
                  m_src[source].ended /\ ~HasItem(m_src, source)

\* C25 (fair lossless merge): every item a source produces is eventually
\* emitted as exactly one pending task of the matching kind (a source with
\* items waiting always comes to have none waiting), while the other sources
\* keep producing (an item is overtaken by at most one task of each of them),
\* and the merged stream ends only after all three sources have ended.
C25_FairLosslessMerge ==
    /\ [](Lossless /\ BoundedOvertaking /\ EndsAfterAllSources)
    /\ [][m_done => m_out' = m_out]_vars
    /\ \A source \in SourceSet :
            HasItem(m_src, source) ~> ~HasItem(m_src, source)

\* an item of the datagrams was overtaken by a bi-stream and a uni-stream
\* that were ready before it, and the merged stream has ended after the
\* sources did
C25_Witness ==
    /\ m_done
    /\ Len(m_out) = 4
    /\ m_out[1].src = "BiStream" /\ m_out[2].src = "UniStream"
    /\ m_out[3].src = "Datagram" /\ m_out[4].src = "BiStream"

----------------------------------------------------------------------------
(* Claims about the calls on the session map, checked under SpecUdpLive   *)
(* and SpecUdp                                                             *)

InCall(c) == u_pc[c] # "idle"

\* the mutex is held exactly by a send between its lock and its return
LockHeldInsideSend ==
    \A c \in Callers : (u_mutex = c) <=> u_pc[c] \in {"send_bind", "send_chan"}

\* C26 (calls return): with the session workers scheduled fairly, every send
\* and every dissociate eventually returns, whatever the interleaving; the
\* map lock is held only by a send between its lock and its return, so a
\* send suspended on channel capacity or on socket creation delays the other
\* calls but never blocks them forever.
C26_CallsReturn ==
    /\ [](u_mutex \in Callers \cup {0} /\ LockHeldInsideSend)
    /\ WorkersScheduled => \A c \in Callers : InCall(c) ~> ~InCall(c)

\* in this step the dissociate of caller c runs
DissociateStep(c) == u_pc[c] = "dis_lock" /\ u_pc'[c] = "idle"

\* what a dissociate(id) leaves alone
DissociateFrame ==
    \A c \in Callers : DissociateStep(c) =>
        LET id == u_arg[c].id
            sid == u_map[id]
        IN  /\ u_map'[id] = Vacant
            /\ \A j \in AssocIds \ {id} : u_map'[j] = u_map[j]
            /\ \A s \in SessionIds \ {sid} : u_sess'[s] = u_sess[s]
            /\ sid # Vacant => u_sess'[sid] = [u_sess[sid] EXCEPT !.tx = FALSE]
            /\ sid = Vacant => (u_map' = u_map /\ u_sess' = u_sess)
            /\ UNCHANGED <<u_tasks, u_rchan, u_sent, u_delivered, u_nsess>>

\* C27 (frame of dissociate): dissociate(id) changes only the entry of id,
\* whose session loses its Sender; the entries, sessions, channels and
\* workers of all other assoc_ids are unchanged, and a dissociate of an id
\* without a session leaves the whole map unchanged.
C27_DissociateFrame == [][DissociateFrame]_vars

\* the session of one assoc_id was removed while the session of another one
\* is still in the map, its worker running and its Sender alive
C27_Witness ==
    \E s, t \in SessionIds :
        /\ Removed(s) /\ ~u_sess[s].tx
        /\ InMap(t) /\ u_sess[t].run = "running" /\ u_sess[t].tx
        /\ u_sess[t].assoc_id # u_sess[s].assoc_id
        /\ u_map[u_sess[s].assoc_id] = Vacant

----------------------------------------------------------------------------
(* Claims about the reply tuples, checked under SpecUdp *)

\* the tuple carries the assoc_id of the session whose socket received its
\* payload
CarriesOwnAssocId(tuple) ==
    tuple # NoTuple =>
        /\ u_sess[tuple.buf.sock].run # "none"
        /\ tuple.assoc_id = u_sess[tuple.buf.sock].assoc_id

\* a session's listen_receive was given the assoc_id its session is stored
\* under
StoredUnderOwnAssocId ==
    \A id \in AssocIds : u_map[id] # Vacant => u_sess[u_map[id]].assoc_id = id

\* the packets handed to the socket of session s: queued on its channel, held
\* by a spawned send_to, or the one transmitted last
OutboundOn(s) ==
    {u_sess[s].chan[i] : i \in 1..Len(u_sess[s].chan)}
        \cup {t \in u_tasks : t.sock = s}
        \cup (IF u_sent.sock = s THEN {u_sent} ELSE {})

\* the tuple is tagged with the assoc_id of the send calls whose packets go out
\* on the socket that received its payload
TaggedAsOutbound(tuple) ==
    tuple # NoTuple =>
        \A p \in OutboundOn(tuple.buf.sock) : p.id = tuple.assoc_id

\* the tuples a session is about to forward, waiting for room on the reply
\* channel, as listen_receive will tag them
AwaitingForward ==
    {[assoc_id |-> u_sess[s].assoc_id, buf |-> u_sess[s].buf] :
        s \in {x \in SessionIds : u_sess[x].recv = "forwarding"}}

\* in this step the tuple at the head of the reply channel is handed to the
\* dispatcher as it was queued, and a tuple is queued only behind the others
ReplyChannelFifo ==
    /\ u_delivered' # u_delivered =>
            u_rchan # <<>> /\ u_delivered' = Head(u_rchan) /\ u_rchan' = Tail(u_rchan)
    /\ Len(u_rchan') > Len(u_rchan) =>
            SubSeq(u_rchan', 1, Len(u_rchan)) = u_rchan

\* C28 (reply tuples): every tuple handed to the receive dispatcher, queued
\* on the reply channel or taken from it, carries the assoc_id of the
\* session whose socket received the payload, which is the assoc_id the
\* session was created for and never changes, whatever the interleaving of
\* the sessions that share the reply channel: the tag is the assoc_id of the
\* packets sent on the same socket, a tuple waiting for room is tagged
\* alike, and the channel hands tuples over unaltered.
C28_ReplyCarriesAssocId ==
    /\ [](/\ \A i \in 1..Len(u_rchan) :
                CarriesOwnAssocId(u_rchan[i]) /\ TaggedAsOutbound(u_rchan[i])
          /\ CarriesOwnAssocId(u_delivered) /\ TaggedAsOutbound(u_delivered)
          /\ \A t \in AwaitingForward : TaggedAsOutbound(t)
          /\ StoredUnderOwnAssocId)
    /\ [][ReplyChannelFifo]_vars
    /\ [][\A s \in SessionIds :
            u_sess[s].run # "none" => u_sess'[s].assoc_id = u_sess[s].assoc_id]_vars

\* two sessions of different assoc_ids share the reply channel: the
\* dispatcher has taken a tuple of the one created second, and behind it the
\* channel is full with a tuple of the first one
C28_Witness ==
    \E s, t \in SessionIds :
        /\ s < t /\ InMap(s) /\ InMap(t)
        /\ u_sess[s].assoc_id # u_sess[t].assoc_id
        /\ u_delivered # NoTuple
        /\ u_delivered.buf.sock = t /\ u_delivered.assoc_id = u_sess[t].assoc_id
        /\ Len(u_rchan) = RecvChanCap
        /\ u_rchan[1].buf.sock = s /\ u_rchan[1].assoc_id = u_sess[s].assoc_id

----------------------------------------------------------------------------
(* A claim about empty fragments, checked under SpecSplit *)

\* C29 (no empty fragment): for a non-empty payload no emitted fragment is
\* empty, also when the payload length is an exact multiple of the step
\* max_datagram_size - H.
C29_NoEmptyFragment ==
    Len(s_in.pkt) > 0 => \A i \in 1..Len(s_out) : Len(s_out[i]) > 0

=============================================================================
